---- MODULE Spec2Model ----
(***************************************************************************)
(* A model of pytest-analog's instrument session layer:                    *)
(*   - the three record drains of AnalogDiscoveryWrapper                   *)
(*     (fill_recorded_samples, fill_recorded_samples_on_channels,          *)
(*     fill_recorded_samples_2),                                           *)
(*   - the two multiprocessing workers (SMUWorker,                         *)
(*     AnalogDiscoveryScopeWorker) and their request/response queues,      *)
(*   - the channel-enable gate (_verify_channels_enable_status) and the    *)
(*     flows that call it, with retrieve_analog_acquisitions,              *)
(*   - the error propagation of the wrapper operations (PyDwfError),       *)
(*   - the context managers of both wrappers,                              *)
(*   - the pytest fixtures that require ini options,                       *)
(*   - the digital I/O mask setters and the SPI chip select.               *)
(* The vendor library (dwf / pysmu) is the environment: every native call  *)
(* returns a status drawn nondeterministically, and the out-parameters of  *)
(* polls are drawn from small sets.                                        *)
(***************************************************************************)
EXTENDS Integers, Sequences, FiniteSets, TLC

\* ------------------------------------------------------------------------
\* Bounds of the model
\* ------------------------------------------------------------------------
\* largest samples_count a drain is called with
MaxCount == 3
\* largest number of samples one poll reports available
MaxAvail == 2
\* samples the device loses in one run of a drain
MaxLost == 2
\* samples the device reports as corrupted in one run of a drain
MaxCorrupt == 1
\* samples the device produces in one run of a drain
MaxStream == 4
\* unsuccessful polls of one polling loop of a flow
MaxPolls == 3
MaxRequests == 2
MaxSamples == 2
MaxLogs == 1
\* captures one call of retrieve_analog_acquisitions fetches
MaxCaptures == 2
\* largest error code of the device's last-error fixture
MaxErrorCode == 2
\* longest channel list a context manager is built with
MaxCtxChannels == 2
\* digital I/O calls made in one run
MaxDioCalls == 3
\* SPI operations made in one run
MaxSpiOps == 3

\* ------------------------------------------------------------------------
\* Program constants
\* ------------------------------------------------------------------------
SUCCESS_RETURN_CODE == 1
\* a native status other than SUCCESS_RETURN_CODE
FAILURE_RETURN_CODE == 0

\* values of AnalogInstrumentState (WaveForms SDK numbering)
DwfStateReady == 0
DwfStateArmed == 1
DwfStateDone == 2
DwfStateRunning == 3
DwfStateConfig == 4
DwfStatePrefill == 5
DwfStateWait == 7

AnalogInstrumentState ==
    { DwfStateReady, DwfStateArmed, DwfStateDone, DwfStateRunning,
      DwfStateConfig, DwfStatePrefill, DwfStateWait }

ReturnCodes == { SUCCESS_RETURN_CODE, FAILURE_RETURN_CODE }

\* AnalogInputChannel members used by the model (Channel1, Channel2), by value + 1
AnalogInputChannel == { 1, 2 }

\* the channel lists a drain is called with
ChannelLists == { <<1>>, <<2>>, <<1, 2>>, <<2, 1>> }

\* Device-side range and offset of each input channel, as the getters
\* FDwfAnalogInChannelRangeGet / FDwfAnalogInChannelOffsetGet report them.
DeviceRange(ch) == IF ch = 1 THEN 2 ELSE 5
DeviceOffset(ch) == IF ch = 1 THEN 0 ELSE 1

\* The raw 16-bit sample the device holds for channel ch at stream position s.
RawSample(ch, s) == 100 * ch + s

VARIABLES
    \* ---- drain ----
    kind,               \* which drain is running: "fifo", "multi", "circ", or "none"
    samples_count,      \* argument samples_count
    input_channels,     \* argument: the channel list (one element for fifo / circ)
    pc,                 \* "begin", "loop", "returned", "raised", "crashed", "idle"
    cSamples,           \* FIFO write cursor
    iSample,            \* circular write cursor
    cLost,              \* local cLost (value of the last record-status read)
    cCorrupted,         \* local cCorrupted
    rgSamples,          \* raw buffers, one per requested channel
    result,             \* local result: Unbound, or Bound(the last data-copy status)
    conversion_factor,  \* range / 65536, held as its numerator (the range)
    ch_offset,          \* offset used for the conversion
    ret,                \* the returned list of arrays, samples scaled by 65536
    log,                \* warnings logged by the drain
    \* ---- drain history (not program state) ----
    lostTotal,          \* sum of the per-poll lost deltas
    corruptTotal,       \* sum of the per-poll corrupted deltas
    copiedTotal,        \* sum of the per-poll copied amounts
    devPos,             \* stream position of the device (samples produced)
    copyFailed,         \* some data-copy call of this drain returned a failure status
    issued,             \* the device calls this drain has made (names)
    last_calls,         \* the device calls of the last step, with their arguments
    prestart,           \* the last poll reported Config, Prefill or Armed
    \* ---- worker processes ----
    worker,             \* which worker class runs: "smu", "scope", or "none"
    wpc,                \* position of run(): "start", "get", "configure", "acquire",
                        \*   "enter", "flow", "exit", "stop", "terminated", "died", "idle"
    request_queue,      \* mp.Queue of requests (controller -> worker)
    response_queue,     \* mp.Queue of responses (worker -> controller)
    request,            \* the request being served
    session,            \* the device connection: "none", "open", "closed"
    channel_mode,       \* ADALM1K channel modes, CH_A and CH_B
    raising,            \* an exception is propagating out of the with-body
    \* ---- worker history (not program state) ----
    sent,               \* the requests the controller has enqueued, in order
    stopSent,           \* the controller has enqueued "STOP"
    taken,              \* the requests the worker has taken, in order
    responses,          \* every response put so far, in order, tagged with the
                        \*   index in `taken` of the request it answers
    received,           \* the responses the controller has got
    opens,              \* device connections opened so far
    closes,             \* device connections closed so far
    servedOn,           \* for each taken request, the connection (by `opens`) it ran on
    \* ---- enable gate ----
    gflow,              \* the flow invoked, or "none"
    targets,            \* argument: the channels the flow targets
    isList,             \* argument: the channel argument is a list
    trigger_source,     \* argument: a trigger source is given
    single_acquisition, \* argument of start_analog_acquisition
    analog_data,        \* argument of play_analog_signal: "unused" (no custom
                        \*   signal type), "given", "missing"
    iterations,         \* rounds of the flow's loop (logging rounds, n_captures)
    enable_state,       \* device: enable state of every channel, 0 or 1
    gpc,                \* "called", "verify", "program", "returned", "raised", "idle"
    gi,                 \* index of `for ch in channels` in the verification
    ip,                 \* index of the next call of the flow body
    return_codes_failed,\* a collected native return code is a failure
    gerr,               \* the exception raised: "none", "precondition", "device"
    \* ---- gate history (not program state) ----
    calls,              \* every call made so far, in order
    gpolls,             \* unsuccessful polls of the current polling loop
    output_state,       \* device: the state of each analog output channel
    written,            \* history: the channels a state-changing call was made on
    dones,              \* history: the polls of the flow that reported Done
    verifyOutcome,      \* how _verify_channels_enable_status ended: "pending",
                        \*   "returned", "precondition", "device"
    \* ---- error propagation ----
    eop,                \* the wrapper operation called, or "none"
    epc,                \* "native", "get_last_error", "get_last_error_message",
                        \*   "raised", "returned", "idle"
    native_rcs,         \* statuses of the native calls the operation has made
    last_error,         \* device: what FDwfGetLastError / FDwfGetLastErrorMsg report
    err_code,           \* the value get_last_error() returned
    exc,                \* the PyDwfError raised: error_code, error_message
    \* ---- error propagation history (not program state) ----
    failure,            \* the last-error fixture of the first failing native call
    \* ---- context managers ----
    ctx_kind,           \* the context manager class, or "none"
    ctx_channels,       \* length of the channel list the context was built with
    ch_modes,           \* SMUContext: << ch_a_mode, ch_b_mode >> as constructed
    n_samples,          \* SMUContext: n_samples as constructed
    cpc,                \* "enter", "except", "body", "exit", "done", "raised", "idle"
    ci,                 \* calls of the current method already made
    cexc,               \* the exception in flight, or "none"
    smu,                \* ADALM1K: channel modes and the running capture
    \* ---- context manager history (not program state) ----
    ctx_calls,          \* the calls made on the wrapper, in order
    conn_opens,         \* connections opened
    conn_closes,        \* close calls made
    seen_modes,         \* what get_channel_mode returned inside the context
    \* ---- fixtures ----
    fixture,            \* the requested fixture, or "none"
    ini,                \* pytestconfig.getini of the fixture's two options
    fpc,                \* "dependency", "setup", "test", "teardown", "done", "raised", "idle"
    fi,                 \* steps of the current phase already made
    ferr,               \* "none", "configuration" (RuntimeError of the check), "device"
    \* ---- fixture history (not program state) ----
    fx_calls,           \* the wrapper calls the fixture's own body has made
    \* ---- digital I/O ----
    dio_output,         \* device: the 16-bit output mask
    dio_enable,         \* device: the 16-bit output-enable mask
    dio_n,              \* wrapper calls made so far
    \* ---- digital I/O history (not program state) ----
    dio_call,           \* the last call: name, channel, value, outcome, ret
    dio_before,         \* the two device masks before the last call
    last_state_set,     \* per channel: the state of the last set call that returned
    last_mode_set,      \* per channel: the mode of the last set call that returned
    \* ---- SPI ----
    spi_op,             \* the operation in progress or last made, or "none"
    spi_pc,             \* "ready", "select", "transfer", "deselect", "idle"
    cs_level,           \* device: chip select, 0 low, 1 high, -1 released
    spi_n,              \* operations made so far
    \* ---- SPI history (not program state) ----
    spi_outcome,        \* how the last operation ended: "returned", "raised", "none"
    spi_configured      \* configure_spi has returned

drainVars == << kind, samples_count, input_channels, pc, cSamples, iSample, cLost,
                cCorrupted, rgSamples, result, conversion_factor, ch_offset, ret,
                log, lostTotal, corruptTotal, copiedTotal, devPos,
                copyFailed, issued, last_calls, prestart >>

workerVars == << worker, wpc, request_queue, response_queue, request, session,
                 channel_mode, raising, sent, stopSent, taken, responses, received,
                 opens, closes, servedOn >>

gateVars == << gflow, targets, isList, trigger_source, single_acquisition,
               analog_data, iterations, enable_state, gpc, gi, ip,
               return_codes_failed, gerr, calls, gpolls, verifyOutcome,
               output_state, written, dones >>

errVars == << eop, epc, native_rcs, last_error, err_code, exc, failure >>

ctxVars == << ctx_kind, ctx_channels, ch_modes, n_samples, cpc, ci, cexc, smu,
              ctx_calls, conn_opens, conn_closes, seen_modes >>

\* the variables of the parts added to the first three
fixVars == << fixture, ini, fpc, fi, ferr, fx_calls >>

dioVars == << dio_output, dio_enable, dio_n, dio_call, dio_before,
              last_state_set, last_mode_set >>

spiVars == << spi_op, spi_pc, cs_level, spi_n, spi_outcome, spi_configured >>

auxVars == << errVars, ctxVars, fixVars, dioVars, spiVars >>

vars == << drainVars, workerVars, gateVars, auxVars >>

\* what the actions of one part leave alone
errRest == << drainVars, workerVars, gateVars, ctxVars, fixVars, dioVars, spiVars >>
ctxRest == << drainVars, workerVars, gateVars, errVars, fixVars, dioVars, spiVars >>
fixRest == << drainVars, workerVars, gateVars, errVars, ctxVars, dioVars, spiVars >>
ioRest == << drainVars, workerVars, gateVars, errVars, ctxVars, fixVars >>

\* ------------------------------------------------------------------------
\* Helpers
\* ------------------------------------------------------------------------

\* the local `result` before its first assignment, and after one
Min(a, b) == IF a <= b THEN a ELSE b

Unbound == << >>
Bound(rc) == << rc >>

\* (c_int16 * samples_count)(): a zero-initialised ctypes array
NewBuffer(n) == [j \in 1..n |-> 0]

\* FDwfAnalogInStatusData16(hdwf, ch, byref(buf, 2 * cursor), idxData, count):
\* on success copies count samples of the polled block, starting at index
\* idxData of the block, to buf[cursor .. cursor + count - 1] (0-based).
\* base is the stream position of the block's first sample.  A count <= 0
\* copies nothing; a failed call leaves the buffer as it was.
StatusData16(buf, ch, cursor, idxData, count, base, status) ==
    IF status # SUCCESS_RETURN_CODE \/ count <= 0
    THEN buf
    ELSE [j \in 1..Len(buf) |->
            IF j - 1 >= cursor /\ j - 1 < cursor + count
            THEN RawSample(ch, base + idxData + (j - 1 - cursor) + 1)
            ELSE buf[j]]

\* np.fromiter(samples, dtype=np.int16) * conversion_factor + ch_offset,
\* each volt value scaled by 65536 to stay in the integers:
\* 65536 * (raw * (range / 65536) + offset) = raw * range + 65536 * offset
ToVolts(samples, factor, offset) ==
    [j \in 1..Len(samples) |-> samples[j] * factor + 65536 * offset]

\* the two post-loop warnings
Warnings(lost, corrupted) ==
    (IF lost > 0 THEN {"lost"} ELSE {}) \cup (IF corrupted > 0 THEN {"corrupted"} ELSE {})

\* ClampAvailable without the clamp
ClampAvailable_Unclamped(cursor, cAvailable, count) == cAvailable

\* "reduce number of requested samples if samples_count will be exceeded"
ClampAvailable(cursor, cAvailable, count) ==
    IF cursor + cAvailable > count THEN count - cursor ELSE cAvailable

\* One device call of a drain: its name and, for a data copy, the channel,
\* the buffer cursor and the requested count.
Issue(name) == [call |-> name, ch |-> 0, cursor |-> 0, count |-> 0]
DataCopy(channel, at, n) ==
    [call |-> "FDwfAnalogInStatusData16", ch |-> channel, cursor |-> at, count |-> n]
Poll == Issue("_get_analog_input_status")
RecordStatus == Issue("_get_analog_input_record_status")

\* the queries at the entry of a drain, as parameter writes
EntryQueries_Writes == << "_set_analog_input_range", "_set_analog_input_offset" >>

\* The queries at the entry of a drain: range, then offset.
EntryQueries == << "_get_analog_input_range", "_get_analog_input_offset" >>

\* raise PyDwfError(self.get_last_error(), self.get_last_error_message())
ErrorQueries == { "get_last_error", "get_last_error_message" }

\* The names of the calls in a call list, with the error queries of a raise.
Names(list, raised) ==
    { list[k].call : k \in 1..Len(list) } \cup (IF raised THEN ErrorQueries ELSE {})

\* The data copies of one poll of the circular drain: chunks that stop at the
\* end of the ring.
RECURSIVE CircularCalls(_, _, _, _)
CircularCalls(channel, cursor, cAvailable, count) ==
    IF ~(cAvailable > 0) THEN << >>
    ELSE LET chunk == ClampAvailable(cursor, cAvailable, count)
         IN << DataCopy(channel, cursor, chunk) >>
            \o CircularCalls(channel, (cursor + chunk) % count, cAvailable - chunk, count)

\* the pre-start test without `cSamples == 0`
SkipIteration_AnyCursor(cursor, pre) == pre

\* `if cSamples == 0 and (status == Config or Prefill or Armed): continue`,
\* with pre the value of the test on the status
SkipIteration(cursor, pre) == cursor = 0 /\ pre

PreStart(status) ==
    status \in { DwfStateConfig, DwfStatePrefill, DwfStateArmed }

\* The parts of the state a specification does not exercise stay idle.
DrainIdle ==
    /\ kind = "none"
    /\ samples_count = 0
    /\ input_channels = << >>
    /\ pc = "idle"
    /\ cSamples = 0
    /\ iSample = 0
    /\ cLost = 0
    /\ cCorrupted = 0
    /\ rgSamples = << >>
    /\ result = Unbound
    /\ conversion_factor = 0
    /\ ch_offset = 0
    /\ ret = << >>
    /\ log = {}
    /\ lostTotal = 0
    /\ corruptTotal = 0
    /\ copiedTotal = 0
    /\ devPos = 0
    /\ copyFailed = FALSE
    /\ issued = {}
    /\ last_calls = << >>
    /\ prestart = FALSE

WorkerIdle ==
    /\ worker = "none"
    /\ wpc = "idle"
    /\ request_queue = << >>
    /\ response_queue = << >>
    /\ request = << >>
    /\ session = "none"
    /\ channel_mode = << >>
    /\ raising = FALSE
    /\ sent = << >>
    /\ stopSent = FALSE
    /\ taken = << >>
    /\ responses = << >>
    /\ received = << >>
    /\ opens = 0
    /\ closes = 0
    /\ servedOn = << >>

GateIdle ==
    /\ gflow = "none"
    /\ targets = << >>
    /\ isList = TRUE
    /\ trigger_source = FALSE
    /\ single_acquisition = FALSE
    /\ analog_data = "unused"
    /\ iterations = 0
    /\ enable_state = << >>
    /\ gpc = "idle"
    /\ gi = 0
    /\ ip = 0
    /\ return_codes_failed = FALSE
    /\ gerr = "none"
    /\ calls = << >>
    /\ gpolls = 0
    /\ verifyOutcome = "pending"
    /\ output_state = << >>
    /\ written = {}
    /\ dones = 0

\* the last error once cleared: "The error code is cleared when other API
\* functions are called and is only set when an API function fails"
NoError == [code |-> 0, msg |-> ""]

\* "there is no exception": the operation has raised nothing
NoException == [error_code |-> 0, error_message |-> [type |-> "none", value |-> ""]]

ErrorIdle ==
    /\ eop = "none"
    /\ epc = "idle"
    /\ native_rcs = << >>
    /\ last_error = NoError
    /\ err_code = 0
    /\ exc = NoException
    /\ failure = NoError

\* the ADALM1K before any context configured it
SMUUnconfigured == [mode_a |-> "HI_Z", mode_b |-> "HI_Z", capture |-> "off"]

ContextIdle ==
    /\ ctx_kind = "none"
    /\ ctx_channels = 0
    /\ ch_modes = << "HI_Z", "HI_Z" >>
    /\ n_samples = 0
    /\ cpc = "idle"
    /\ ci = 0
    /\ cexc = "none"
    /\ smu = SMUUnconfigured
    /\ ctx_calls = << >>
    /\ conn_opens = 0
    /\ conn_closes = 0
    /\ seen_modes = << >>

FixtureIdle ==
    /\ fixture = "none"
    /\ ini = << >>
    /\ fpc = "idle"
    /\ fi = 0
    /\ ferr = "none"
    /\ fx_calls = << >>

DigitalIdle ==
    /\ dio_output = 0
    /\ dio_enable = 0
    /\ dio_n = 0
    /\ dio_call = [name |-> "none", channel |-> 0, value |-> FALSE,
                    outcome |-> "none", ret |-> FALSE]
    /\ dio_before = << 0, 0 >>
    /\ last_state_set = << >>
    /\ last_mode_set = << >>

SpiIdle ==
    /\ spi_op = "none"
    /\ spi_pc = "idle"
    /\ cs_level = -1
    /\ spi_n = 0
    /\ spi_outcome = "none"
    /\ spi_configured = FALSE

AuxIdle ==
    /\ ErrorIdle
    /\ ContextIdle
    /\ FixtureIdle
    /\ DigitalIdle
    /\ SpiIdle

\* ------------------------------------------------------------------------
\* Drain: entry
\* ------------------------------------------------------------------------
InitDrain ==
    /\ WorkerIdle
    /\ GateIdle
    /\ AuxIdle
    /\ kind \in { "fifo", "multi", "circ" }
    /\ samples_count \in 0..MaxCount
    /\ input_channels \in ChannelLists
    /\ (kind # "multi" => Len(input_channels) = 1)
    /\ pc = "begin"
    /\ cSamples = 0
    /\ iSample = 0
    /\ cLost = 0
    /\ cCorrupted = 0
    /\ rgSamples = [i \in 1..Len(input_channels) |-> NewBuffer(samples_count)]
    /\ result = Unbound
    /\ conversion_factor = 0
    /\ ch_offset = 0
    /\ ret = << >>
    /\ log = {}
    /\ lostTotal = 0
    /\ corruptTotal = 0
    /\ copiedTotal = 0
    /\ devPos = 0
    /\ copyFailed = FALSE
    /\ issued = {}
    /\ last_calls = << >>
    /\ prestart = FALSE

\* conversion_factor = self._get_analog_input_range(ch) / 65536
\* ch_offset = self._get_analog_input_offset(ch)
\* with ch the single channel, or input_channels[0] in the multi-channel drain
DrainEnter ==
    /\ pc = "begin"
    /\ \E rcRange \in ReturnCodes, rcOffset \in ReturnCodes :
          IF rcRange # SUCCESS_RETURN_CODE \/ rcOffset # SUCCESS_RETURN_CODE
          THEN /\ pc' = "raised"
               /\ last_calls' = IF rcRange # SUCCESS_RETURN_CODE
                                THEN << Issue(EntryQueries[1]) >>
                                ELSE << Issue(EntryQueries[1]), Issue(EntryQueries[2]) >>
               /\ UNCHANGED << conversion_factor, ch_offset >>
          ELSE /\ pc' = "loop"
               /\ last_calls' = << Issue(EntryQueries[1]), Issue(EntryQueries[2]) >>
               /\ conversion_factor' = DeviceRange(input_channels[1])
               /\ ch_offset' = DeviceOffset(input_channels[1])
    /\ issued' = issued \cup Names(last_calls', pc' = "raised")
    /\ UNCHANGED prestart
    /\ UNCHANGED << kind, samples_count, input_channels, cSamples, iSample, cLost,
                    cCorrupted, rgSamples, result, ret, log, lostTotal,
                    corruptTotal, copiedTotal, devPos, copyFailed >>
    /\ UNCHANGED << workerVars, gateVars, auxVars >>

\* ------------------------------------------------------------------------
\* Drain: fill_recorded_samples (FIFO, one channel)
\* ------------------------------------------------------------------------

\* One iteration of `while cSamples < samples_count`.
fill_recorded_samples_poll ==
    /\ kind = "fifo"
    /\ pc = "loop"
    /\ cSamples < samples_count
    /\ \E rcStatus \in ReturnCodes :
          IF rcStatus # SUCCESS_RETURN_CODE
          THEN \* _get_analog_input_status raises
               /\ pc' = "raised"
               /\ last_calls' = << Poll >>
               /\ UNCHANGED prestart
               /\ UNCHANGED << cSamples, cLost, cCorrupted, rgSamples, result,
                               lostTotal, corruptTotal, copiedTotal, devPos, copyFailed >>
          ELSE \E pre \in { PreStart(status) : status \in AnalogInstrumentState } :
       /\ prestart' = pre
       /\ IF SkipIteration(cSamples, pre)
          THEN \* acquisition not yet started: continue
               /\ last_calls' = << Poll >>
               /\ UNCHANGED << pc, cSamples, cLost, cCorrupted, rgSamples, result,
                            lostTotal, corruptTotal, copiedTotal, devPos, copyFailed >>
          ELSE \E rcRecord \in ReturnCodes :
          IF rcRecord # SUCCESS_RETURN_CODE
          THEN \* _get_analog_input_record_status raises
               /\ pc' = "raised"
               /\ last_calls' = << Poll, RecordStatus >>
               /\ UNCHANGED << cSamples, cLost, cCorrupted, rgSamples, result,
                               lostTotal, corruptTotal, copiedTotal, devPos, copyFailed >>
          ELSE \E lost \in 0..(MaxLost - lostTotal),
                  corrupt \in 0..(MaxCorrupt - corruptTotal) :
               \E available \in 0..Min(MaxAvail, MaxStream - devPos - lost) :
               /\ cLost' = lost
               /\ cCorrupted' = corrupt
               /\ lostTotal' = lostTotal + lost
               /\ corruptTotal' = corruptTotal + corrupt
               /\ devPos' = devPos + lost + available
               /\ UNCHANGED pc
               /\ IF available = 0
                  THEN /\ cSamples' = cSamples + lost
                       /\ last_calls' = << Poll, RecordStatus >>
                       /\ UNCHANGED << rgSamples, result, copiedTotal, copyFailed >>
                  ELSE \E rcData \in ReturnCodes :
                       LET cursor == cSamples + lost
                           cAvailable == ClampAvailable(cursor, available, samples_count)
                       IN /\ rgSamples' =
                                [rgSamples EXCEPT ![1] =
                                    StatusData16(@, input_channels[1], cursor, 0,
                                                 cAvailable, devPos + lost, rcData)]
                          /\ last_calls' = << Poll, RecordStatus,
                                             DataCopy(input_channels[1], cursor, cAvailable) >>
                          /\ result' = Bound(rcData)
                          /\ copyFailed' = (copyFailed \/ rcData # SUCCESS_RETURN_CODE)
                          /\ cSamples' = cursor + cAvailable
                          /\ copiedTotal' = copiedTotal + cAvailable
    /\ issued' = issued \cup Names(last_calls', pc' = "raised")
    /\ UNCHANGED << kind, samples_count, input_channels, iSample, conversion_factor,
                    ch_offset, ret, log >>
    /\ UNCHANGED << workerVars, gateVars, auxVars >>

\* The code after the loop: the status check, the warnings, the conversion.
fill_recorded_samples_return ==
    /\ kind = "fifo"
    /\ pc = "loop"
    /\ ~(cSamples < samples_count)
    /\ IF result = Unbound
       THEN \* `result` was never assigned: UnboundLocalError
            /\ pc' = "crashed"
            /\ UNCHANGED << ret, log >>
       ELSE IF result # Bound(SUCCESS_RETURN_CODE)
       THEN /\ pc' = "raised"
            /\ UNCHANGED << ret, log >>
       ELSE /\ pc' = "returned"
            /\ log' = Warnings(cLost, cCorrupted)
            /\ ret' = << ToVolts(rgSamples[1], conversion_factor, ch_offset) >>
    /\ last_calls' = << >>
    /\ issued' = issued \cup Names(last_calls', pc' = "raised")
    /\ UNCHANGED << kind, samples_count, input_channels, cSamples, iSample, cLost,
                    cCorrupted, rgSamples, result, conversion_factor, ch_offset,
                    lostTotal, corruptTotal, copiedTotal, devPos, copyFailed, prestart >>
    /\ UNCHANGED << workerVars, gateVars, auxVars >>

\* ------------------------------------------------------------------------
\* Drain: fill_recorded_samples_on_channels (FIFO, several channels)
\* ------------------------------------------------------------------------

\* One iteration of `while cSamples < samples_count`; the data copy is made
\* once per channel and `result` keeps the status of the last one.
fill_recorded_samples_on_channels_poll ==
    /\ kind = "multi"
    /\ pc = "loop"
    /\ cSamples < samples_count
    /\ \E rcStatus \in ReturnCodes :
          IF rcStatus # SUCCESS_RETURN_CODE
          THEN /\ pc' = "raised"
               /\ last_calls' = << Poll >>
               /\ UNCHANGED prestart
               /\ UNCHANGED << cSamples, cLost, cCorrupted, rgSamples, result,
                               lostTotal, corruptTotal, copiedTotal, devPos, copyFailed >>
          ELSE \E pre \in { PreStart(status) : status \in AnalogInstrumentState } :
       /\ prestart' = pre
       /\ IF SkipIteration(cSamples, pre)
          THEN /\ last_calls' = << Poll >>
               /\ UNCHANGED << pc, cSamples, cLost, cCorrupted, rgSamples, result,
                            lostTotal, corruptTotal, copiedTotal, devPos, copyFailed >>
          ELSE \E rcRecord \in ReturnCodes :
          IF rcRecord # SUCCESS_RETURN_CODE
          THEN /\ pc' = "raised"
               /\ last_calls' = << Poll, RecordStatus >>
               /\ UNCHANGED << cSamples, cLost, cCorrupted, rgSamples, result,
                               lostTotal, corruptTotal, copiedTotal, devPos, copyFailed >>
          ELSE \E lost \in 0..(MaxLost - lostTotal),
                  corrupt \in 0..(MaxCorrupt - corruptTotal) :
               \E available \in 0..Min(MaxAvail, MaxStream - devPos - lost) :
               /\ cLost' = lost
               /\ cCorrupted' = corrupt
               /\ lostTotal' = lostTotal + lost
               /\ corruptTotal' = corruptTotal + corrupt
               /\ devPos' = devPos + lost + available
               /\ UNCHANGED pc
               /\ IF available = 0
                  THEN /\ cSamples' = cSamples + lost
                       /\ last_calls' = << Poll, RecordStatus >>
                       /\ UNCHANGED << rgSamples, result, copiedTotal, copyFailed >>
                  ELSE \E rcData \in [1..Len(input_channels) -> ReturnCodes] :
                       LET cursor == cSamples + lost
                           cAvailable == ClampAvailable(cursor, available, samples_count)
                       IN /\ rgSamples' =
                                [i \in 1..Len(input_channels) |->
                                    StatusData16(rgSamples[i], input_channels[i], cursor,
                                                 0, cAvailable, devPos + lost, rcData[i])]
                          /\ last_calls' = << Poll, RecordStatus >>
                                \o [i \in 1..Len(input_channels) |->
                                       DataCopy(input_channels[i], cursor, cAvailable)]
                          /\ result' = Bound(rcData[Len(input_channels)])
                          /\ copyFailed' = (copyFailed \/ \E i \in DOMAIN rcData :
                                                            rcData[i] # SUCCESS_RETURN_CODE)
                          /\ cSamples' = cursor + cAvailable
                          /\ copiedTotal' = copiedTotal + cAvailable
    /\ issued' = issued \cup Names(last_calls', pc' = "raised")
    /\ UNCHANGED << kind, samples_count, input_channels, iSample, conversion_factor,
                    ch_offset, ret, log >>
    /\ UNCHANGED << workerVars, gateVars, auxVars >>

fill_recorded_samples_on_channels_return ==
    /\ kind = "multi"
    /\ pc = "loop"
    /\ ~(cSamples < samples_count)
    /\ IF result = Unbound
       THEN /\ pc' = "crashed"
            /\ UNCHANGED << ret, log >>
       ELSE IF result # Bound(SUCCESS_RETURN_CODE)
       THEN /\ pc' = "raised"
            /\ UNCHANGED << ret, log >>
       ELSE /\ pc' = "returned"
            /\ log' = Warnings(cLost, cCorrupted)
            /\ ret' = [i \in 1..Len(input_channels) |->
                          ToVolts(rgSamples[i], conversion_factor, ch_offset)]
    /\ last_calls' = << >>
    /\ issued' = issued \cup Names(last_calls', pc' = "raised")
    /\ UNCHANGED << kind, samples_count, input_channels, cSamples, iSample, cLost,
                    cCorrupted, rgSamples, result, conversion_factor, ch_offset,
                    lostTotal, corruptTotal, copiedTotal, devPos, copyFailed, prestart >>
    /\ UNCHANGED << workerVars, gateVars, auxVars >>

\* ------------------------------------------------------------------------
\* Drain: fill_recorded_samples_2 (circular, one channel)
\* ------------------------------------------------------------------------

\* `while cAvailable > 0`: copy the polled block into the ring in chunks that
\* stop at the end of the ring.  rcs[k] is the status of the k-th copy call.
\* The value is the ring, the cursor and `result` after the loop.
RECURSIVE CircularCopy(_, _, _, _, _, _, _, _, _, _)
CircularCopy(buf, ch, cursor, iBuffer, cAvailable, count, base, rcs, k, res) ==
    IF ~(cAvailable > 0)
    THEN [buf |-> buf, iSample |-> cursor, result |-> res]
    ELSE LET chunk == ClampAvailable(cursor, cAvailable, count)
         IN CircularCopy(StatusData16(buf, ch, cursor, iBuffer, chunk, base, rcs[k]),
                         ch, (cursor + chunk) % count, iBuffer + chunk,
                         cAvailable - chunk, count, base, rcs, k + 1, Bound(rcs[k]))

\* AlignRecordedData without the rotation
AlignRecordedData_Unrotated(rg, cursor) == rg

\* "align recorded data": rgSamples[iSample:] + rgSamples[:iSample]
AlignRecordedData(rg, cursor) ==
    IF cursor # 0
    THEN SubSeq(rg, cursor + 1, Len(rg)) \o SubSeq(rg, 1, cursor)
    ELSE rg

\* One iteration of `while True`, and on state Done the code after the loop.
fill_recorded_samples_2_poll ==
    /\ kind = "circ"
    /\ pc = "loop"
    /\ \E rcStatus \in ReturnCodes, rcRecord \in ReturnCodes :
          IF rcStatus # SUCCESS_RETURN_CODE \/ rcRecord # SUCCESS_RETURN_CODE
          THEN \* _get_analog_input_status or _get_analog_input_record_status raises
               /\ pc' = "raised"
               /\ last_calls' = IF rcStatus # SUCCESS_RETURN_CODE
                                THEN << Poll >> ELSE << Poll, RecordStatus >>
               /\ UNCHANGED prestart
               /\ UNCHANGED << iSample, cLost, cCorrupted, rgSamples, result, ret, log,
                               lostTotal, corruptTotal, copiedTotal, devPos, copyFailed >>
          ELSE \E lost \in 0..(MaxLost - lostTotal),
                  corrupt \in 0..(MaxCorrupt - corruptTotal) :
          IF samples_count = 0
          THEN \* iSample %= samples_count: ZeroDivisionError
               /\ pc' = "crashed"
               /\ cLost' = lost
               /\ cCorrupted' = corrupt
               /\ last_calls' = << Poll, RecordStatus >>
               /\ UNCHANGED prestart
               /\ UNCHANGED << iSample, rgSamples, result, ret, log,
                               lostTotal, corruptTotal, copiedTotal, devPos, copyFailed >>
          ELSE \E available \in 0..Min(MaxAvail, MaxStream - devPos - lost),
                  done \in { status = DwfStateDone : status \in AnalogInstrumentState } :
               \E rcData \in [1..available -> ReturnCodes] :
               LET r == CircularCopy(rgSamples[1], input_channels[1],
                                     (iSample + lost) % samples_count, 0, available,
                                     samples_count, devPos + lost, rcData, 1, result)
               IN /\ cLost' = lost
                  /\ cCorrupted' = corrupt
                  /\ last_calls' = << Poll, RecordStatus >>
                        \o CircularCalls(input_channels[1], (iSample + lost) % samples_count,
                                         available, samples_count)
                  /\ UNCHANGED prestart
                  /\ lostTotal' = lostTotal + lost
                  /\ corruptTotal' = corruptTotal + corrupt
                  /\ copiedTotal' = copiedTotal + available
                  /\ devPos' = devPos + lost + available
                  /\ rgSamples' = [rgSamples EXCEPT ![1] = r.buf]
                  /\ iSample' = r.iSample
                  /\ result' = r.result
                  /\ copyFailed' = (copyFailed \/ \E i \in DOMAIN rcData :
                                                    rcData[i] # SUCCESS_RETURN_CODE)
                  /\ IF done
                     THEN /\ pc' = "returned"
                          /\ log' = Warnings(lost, corrupt)
                          /\ ret' = << ToVolts(AlignRecordedData(r.buf, r.iSample),
                                               conversion_factor, ch_offset) >>
                     ELSE /\ pc' = IF r.result = Unbound THEN "crashed"
                                   ELSE IF r.result # Bound(SUCCESS_RETURN_CODE)
                                        THEN "raised" ELSE "loop"
                          /\ UNCHANGED << ret, log >>
    /\ issued' = issued \cup Names(last_calls', pc' = "raised")
    /\ UNCHANGED << kind, samples_count, input_channels, cSamples, conversion_factor,
                    ch_offset >>
    /\ UNCHANGED << workerVars, gateVars, auxVars >>

\* ------------------------------------------------------------------------
\* Specification of the drains
\* ------------------------------------------------------------------------
NextDrain ==
    \/ DrainEnter
    \/ fill_recorded_samples_poll
    \/ fill_recorded_samples_return
    \/ fill_recorded_samples_on_channels_poll
    \/ fill_recorded_samples_on_channels_return
    \/ fill_recorded_samples_2_poll

SpecDrain == InitDrain /\ [][NextDrain]_vars

\* ------------------------------------------------------------------------
\* Worker processes: messages
\* ------------------------------------------------------------------------
AnalogChannelMode == { "HI_Z", "SVMI" }

\* request tuple of SMUWorker:
\* (ch_a_mode, ch_b_mode, ch_a_dc_output, ch_b_dc_output, n_samples)
SMURequests ==
    [tag : {"REQ"}, ch_a_mode : AnalogChannelMode, ch_b_mode : AnalogChannelMode,
     n_samples : 1..MaxSamples]

\* request tuple of AnalogDiscoveryScopeWorker:
\* (scope_mode, scope_channels, n_samples, sampling_frequency, scope_range, scan_duration)
\* "OTHER" stands for any mode string that is neither "RECORD" nor "SCAN".
ScopeRequests ==
    [tag : {"REQ"}, scope_mode : {"RECORD", "SCAN", "OTHER"},
     scope_channels : { <<1>>, <<1, 2>> }, n_samples : 1..MaxSamples]

\* the sentinel "STOP"
STOP == [tag |-> "STOP"]

\* ADALM1KWrapper.get_samples_all(n_samples): n_samples samples
get_samples_all(n) == [j \in 1..n |-> 0]

\* the value fill_recorded_samples_on_channels returns: one array of
\* samples_count values per requested channel
RecordResponse_FirstChannel(channels, n) == << NewBuffer(n) >>

RecordResponse(channels, n) == [i \in 1..Len(channels) |-> NewBuffer(n)]

\* the value retrieve_analog_screen returns: one (c_double * samples_count)
\* array per requested channel
ScreenResponse(channels, n) == [i \in 1..Len(channels) |-> NewBuffer(n)]

\* response_queue.put(response), with the history of the puts
Put(response) ==
    /\ response_queue' = Append(response_queue, response)
    /\ responses' = Append(responses, [rid |-> Len(taken), data |-> response])

\* ------------------------------------------------------------------------
\* Worker processes: the controller (the parent process)
\* ------------------------------------------------------------------------
InitWorker ==
    /\ DrainIdle
    /\ GateIdle
    /\ AuxIdle
    /\ worker \in { "smu", "scope" }
    /\ wpc = IF worker = "smu" THEN "start" ELSE "get"
    /\ request_queue = << >>
    /\ response_queue = << >>
    /\ request = << >>
    /\ session = "none"
    /\ channel_mode = [CH_A |-> "HI_Z", CH_B |-> "HI_Z"]
    /\ raising = FALSE
    /\ sent = << >>
    /\ stopSent = FALSE
    /\ taken = << >>
    /\ responses = << >>
    /\ received = << >>
    /\ opens = 0
    /\ closes = 0
    /\ servedOn = << >>

\* request_queue.put(request); the sentinel is the controller's last message
Controller_put_request ==
    /\ worker # "none"
    /\ ~stopSent
    /\ Len(sent) < MaxRequests
    /\ \E r \in (IF worker = "smu" THEN SMURequests ELSE ScopeRequests) :
          /\ request_queue' = Append(request_queue, r)
          /\ sent' = Append(sent, r)
    /\ UNCHANGED << worker, wpc, response_queue, request, session, channel_mode,
                    raising, stopSent, taken, responses, received, opens, closes,
                    servedOn >>
    /\ UNCHANGED << drainVars, gateVars, auxVars >>

\* request_queue.put("STOP")
Controller_put_stop ==
    /\ worker # "none"
    /\ ~stopSent
    /\ request_queue' = Append(request_queue, STOP)
    /\ stopSent' = TRUE
    /\ UNCHANGED << worker, wpc, response_queue, request, session, channel_mode,
                    raising, sent, taken, responses, received, opens, closes,
                    servedOn >>
    /\ UNCHANGED << drainVars, gateVars, auxVars >>

\* response_queue.get()
Controller_get_response ==
    /\ worker # "none"
    /\ response_queue # << >>
    /\ received' = Append(received, Head(response_queue))
    /\ response_queue' = Tail(response_queue)
    /\ UNCHANGED << worker, wpc, request_queue, request, session, channel_mode,
                    raising, sent, stopSent, taken, responses, opens, closes,
                    servedOn >>
    /\ UNCHANGED << drainVars, gateVars, auxVars >>

\* ------------------------------------------------------------------------
\* SMUWorker.run
\* ------------------------------------------------------------------------

\* self.adalm1k = ADALM1KWrapper(); self.adalm1k.open()
\* open() raises RuntimeError when no device is detected
SMUWorker_open ==
    /\ worker = "smu"
    /\ wpc = "start"
    /\ \E detected \in BOOLEAN :
          IF detected
          THEN /\ session' = "open"
               /\ opens' = opens + 1
               /\ wpc' = "get"
          ELSE /\ wpc' = "died"
               /\ UNCHANGED << session, opens >>
    /\ UNCHANGED << worker, request_queue, response_queue, request, channel_mode,
                    raising, sent, stopSent, taken, responses, received, closes,
                    servedOn >>
    /\ UNCHANGED << drainVars, gateVars, auxVars >>

\* for request in iter(self.request_queue.get, "STOP"): one blocking get
SMUWorker_get ==
    /\ worker = "smu"
    /\ wpc = "get"
    /\ request_queue # << >>
    /\ request_queue' = Tail(request_queue)
    /\ IF Head(request_queue) = STOP
       THEN /\ wpc' = "stop"
            /\ UNCHANGED << request, taken >>
       ELSE /\ wpc' = "configure"
            /\ request' = Head(request_queue)
            /\ taken' = Append(taken, Head(request_queue))
    /\ UNCHANGED << worker, response_queue, session, channel_mode, raising, sent,
                    stopSent, responses, received, opens, closes, servedOn >>
    /\ UNCHANGED << drainVars, gateVars, auxVars >>

\* "configure adalm1k channels": set_channel_mode(CH_A), set_channel_mode(CH_B),
\* set_channel_constant_output(CH_A), set_channel_constant_output(CH_B);
\* any of the calls may raise (failAt names the first that does).
SMUWorker_configure ==
    /\ worker = "smu"
    /\ wpc = "configure"
    /\ servedOn' = Append(servedOn, opens)
    /\ \E failAt \in { "none", "mode_a", "mode_b", "output" } :
          /\ channel_mode' =
                [CH_A |-> IF failAt = "mode_a" THEN channel_mode.CH_A
                          ELSE request.ch_a_mode,
                 CH_B |-> IF failAt \in { "mode_a", "mode_b" } THEN channel_mode.CH_B
                          ELSE request.ch_b_mode]
          /\ wpc' = IF failAt = "none" THEN "acquire" ELSE "died"
    /\ UNCHANGED << worker, request_queue, response_queue, request, session, raising,
                    sent, stopSent, taken, responses, received, opens, closes >>
    /\ UNCHANGED << drainVars, gateVars, auxVars >>

\* response = self.adalm1k.get_samples_all(n_samples)
\* self.response_queue.put(response)
SMUWorker_acquire ==
    /\ worker = "smu"
    /\ wpc = "acquire"
    /\ \E ok \in BOOLEAN :
          IF ok
          THEN /\ Put(get_samples_all(request.n_samples))
               /\ wpc' = "get"
          ELSE /\ wpc' = "died"
               /\ UNCHANGED << response_queue, responses >>
    /\ UNCHANGED << worker, request_queue, request, session, channel_mode, raising,
                    sent, stopSent, taken, received, opens, closes, servedOn >>
    /\ UNCHANGED << drainVars, gateVars, auxVars >>

\* "STOP condition": both channels to HI_Z, then close()
SMUWorker_stop ==
    /\ worker = "smu"
    /\ wpc = "stop"
    /\ \E failAt \in { "none", "mode_a", "mode_b", "close" } :
          /\ channel_mode' =
                [CH_A |-> IF failAt = "mode_a" THEN channel_mode.CH_A ELSE "HI_Z",
                 CH_B |-> IF failAt \in { "mode_a", "mode_b" } THEN channel_mode.CH_B
                          ELSE "HI_Z"]
          /\ IF failAt = "none"
             THEN /\ session' = "closed"
                  /\ closes' = closes + 1
                  /\ wpc' = "terminated"
             ELSE /\ wpc' = "died"
                  /\ UNCHANGED << session, closes >>
    /\ UNCHANGED << worker, request_queue, response_queue, request, raising, sent,
                    stopSent, taken, responses, received, opens, servedOn >>
    /\ UNCHANGED << drainVars, gateVars, auxVars >>

\* ------------------------------------------------------------------------
\* AnalogDiscoveryScopeWorker.run
\* ------------------------------------------------------------------------

\* for request in iter(self.request_queue.get, "STOP"): one blocking get;
\* run() has nothing after the loop
ScopeWorker_get ==
    /\ worker = "scope"
    /\ wpc = "get"
    /\ request_queue # << >>
    /\ request_queue' = Tail(request_queue)
    /\ IF Head(request_queue) = STOP
       THEN /\ wpc' = "terminated"
            /\ UNCHANGED << request, taken >>
       ELSE /\ wpc' = "enter"
            /\ request' = Head(request_queue)
            /\ taken' = Append(taken, Head(request_queue))
    /\ UNCHANGED << worker, response_queue, session, channel_mode, raising, sent,
                    stopSent, responses, received, opens, closes, servedOn >>
    /\ UNCHANGED << drainVars, gateVars, auxVars >>

\* with AnalogDiscoveryScopeWaveGenContext(scope_channels, ad_config_n) as scope:
\* __enter__ opens the connection and enables the channels.  An exception
\* raised by __enter__ leaves the with statement without running __exit__.
ScopeWorker_enter ==
    /\ worker = "scope"
    /\ wpc = "enter"
    /\ \E outcome \in { "ok", "open_raises", "enable_raises" } :
          /\ IF outcome = "open_raises"
             THEN UNCHANGED << session, opens >>
             ELSE /\ session' = "open"
                  /\ opens' = opens + 1
          /\ IF outcome = "ok"
             THEN /\ wpc' = "flow"
                  /\ servedOn' = Append(servedOn, opens + 1)
             ELSE /\ wpc' = "died"
                  /\ UNCHANGED servedOn
    /\ UNCHANGED << worker, request_queue, response_queue, request, channel_mode,
                    raising, sent, stopSent, taken, responses, received, closes >>
    /\ UNCHANGED << drainVars, gateVars, auxVars >>

\* the with-body: the RECORD flow, the SCAN flow, or neither
ScopeWorker_flow ==
    /\ worker = "scope"
    /\ wpc = "flow"
    /\ wpc' = "exit"
    /\ \E ok \in BOOLEAN :
          IF request.scope_mode = "RECORD" /\ ok
          THEN /\ Put(RecordResponse(request.scope_channels, request.n_samples))
               /\ UNCHANGED raising
          ELSE IF request.scope_mode = "SCAN" /\ ok
          THEN /\ Put(ScreenResponse(request.scope_channels, request.n_samples))
               /\ UNCHANGED raising
          ELSE /\ raising' = (request.scope_mode \in { "RECORD", "SCAN" })
               /\ UNCHANGED << response_queue, responses >>
    /\ UNCHANGED << worker, request_queue, request, session, channel_mode, sent,
                    stopSent, taken, received, opens, closes, servedOn >>
    /\ UNCHANGED << drainVars, gateVars, auxVars >>

\* ScopeWorker_exit with close_connection() left out of __exit__
ScopeWorker_exit_NoClose ==
    /\ worker = "scope"
    /\ wpc = "exit"
    /\ raising' = FALSE
    /\ wpc' = IF ~raising THEN "get" ELSE "died"
    /\ UNCHANGED << worker, request_queue, response_queue, request, session,
                    channel_mode, sent, stopSent, taken, responses, received, opens,
                    closes, servedOn >>
    /\ UNCHANGED << drainVars, gateVars, auxVars >>

\* AnalogDiscoveryScopeWaveGenContext.__exit__: three kinds of reset calls,
\* then close_connection(); the first call that raises ends __exit__.
ScopeWorker_exit ==
    /\ worker = "scope"
    /\ wpc = "exit"
    /\ raising' = FALSE
    /\ \E outcome \in { "ok", "reset_raises", "close_raises" } :
          /\ IF outcome = "ok"
             THEN /\ session' = "closed"
                  /\ closes' = closes + 1
             ELSE UNCHANGED << session, closes >>
          /\ wpc' = IF outcome = "ok" /\ ~raising THEN "get" ELSE "died"
    /\ UNCHANGED << worker, request_queue, response_queue, request, channel_mode,
                    sent, stopSent, taken, responses, received, opens, servedOn >>
    /\ UNCHANGED << drainVars, gateVars, auxVars >>

\* ------------------------------------------------------------------------
\* Specification of the workers
\* ------------------------------------------------------------------------
NextWorker ==
    \/ Controller_put_request
    \/ Controller_put_stop
    \/ Controller_get_response
    \/ SMUWorker_open
    \/ SMUWorker_get
    \/ SMUWorker_configure
    \/ SMUWorker_acquire
    \/ SMUWorker_stop
    \/ ScopeWorker_get
    \/ ScopeWorker_enter
    \/ ScopeWorker_flow
    \/ ScopeWorker_exit

SpecWorker == InitWorker /\ [][NextWorker]_vars


\* ========================================================================
\* The enable gate and the flows behind it
\* ========================================================================

\* A channel of the Analog Discovery: an analog input or an analog output.
In(k) == [type |-> "AnalogInputChannel", value |-> k]
Out(k) == [type |-> "AnalogOutputChannel", value |-> k]
GateChannels == { In(1), In(2), Out(1), Out(2) }
AnalogOutputChannel == { Out(1), Out(2) }

\* a call made outside every `for ch in ...` loop
NoChannel == [type |-> "none", value |-> 0]

\* The nine flows that call _verify_channels_enable_status.
Flows == { "play_analog_signal", "record_analog_signal", "start_analog_screen",
           "perform_single_analog_acquisition", "start_analog_acquisition",
           "perform_ac_rms_data_logging", "perform_fft_measurements",
           "perform_spectrum_measurements", "perform_sine_sweep_measurements" }

\* A flow that makes no enable check: it fetches what start_analog_acquisition
\* has started.
UngatedFlows == { "retrieve_analog_acquisitions" }

\* The flows that start with `if not isinstance(<channels>, list): raise`.
ListCheckedFlows == { "play_analog_signal", "record_analog_signal",
                      "start_analog_screen" }

\* The flows with an optional trigger block (`if trigger_source:`).
TriggerFlows == { "play_analog_signal", "record_analog_signal",
                  "perform_single_analog_acquisition", "start_analog_acquisition" }

\* The channels a caller can target with each flow.
TargetsOf(flow) ==
    CASE flow = "play_analog_signal" ->
            { << Out(1) >>, << Out(2) >>, << Out(1), Out(2) >> }
      [] flow \in { "record_analog_signal", "start_analog_screen",
                    "start_analog_acquisition", "retrieve_analog_acquisitions" } ->
            { << In(1) >>, << In(2) >>, << In(1), In(2) >> }
      [] flow = "perform_sine_sweep_measurements" ->
            { << In(1), Out(1) >>, << In(2), Out(1) >> }
      [] OTHER -> { << In(1) >>, << In(2) >> }

\* One entry of a flow's call sequence.  `until` is the set of instrument
\* states a polling loop waits for (empty: the call is made once); `deferred`
\* marks a native call whose return code is collected and checked later.
Call(name) == [call |-> name, until |-> {}, deferred |-> FALSE, ch |-> NoChannel]
\* a polling loop that is left after its first poll, whatever the state
PollUntil_FirstPoll(state) ==
    [call |-> "_get_analog_input_status", until |-> AnalogInstrumentState,
     deferred |-> FALSE, ch |-> NoChannel]

\* `while True: status = self._get_analog_input_status(read_data=True)` with
\* `if status == <state>: break`
PollUntil(state) == [call |-> "_get_analog_input_status", until |-> { state },
                     deferred |-> FALSE, ch |-> NoChannel]
Deferred(name) == [call |-> name, until |-> {}, deferred |-> TRUE, ch |-> NoChannel]

\* `for ch in <every output channel>: <body>`
RECURSIVE ForEach_EveryOutput(_, _)
ForEach_EveryOutput(channels, body) ==
    IF channels = << >> THEN << >>
    ELSE [k \in 1..Len(body) |-> [body[k] EXCEPT !.ch = Out(1)]]
         \o [k \in 1..Len(body) |-> [body[k] EXCEPT !.ch = Out(2)]]
         \o ForEach_EveryOutput(Tail(channels), body)

\* `for ch in channels: <body>`: the calls of the body, each with ch bound
\* to the channel of its round
RECURSIVE ForEach(_, _)
ForEach(channels, body) ==
    IF channels = << >> THEN << >>
    ELSE [k \in 1..Len(body) |-> [body[k] EXCEPT !.ch = Head(channels)]]
         \o ForEach(Tail(channels), body)

\* `if cond: <body>`
When(cond, body) == IF cond THEN body ELSE << >>

\* The trigger block of the analog input flows.
InputTriggerBlock ==
    << Call("_set_analog_input_trigger_source"),
       Call("_set_analog_input_trigger_position"),
       Call("_set_analog_input_trigger_type"),
       Call("_set_analog_input_trigger_channel"),
       Call("_set_analog_input_trigger_level"),
       Call("_set_analog_input_trigger_hysteresis"),
       Call("_set_analog_input_trigger_condition") >>

\* Range, offset and filter of one input channel.
InputChannelBlock ==
    << Call("_set_analog_input_range"),
       Call("_set_analog_input_offset"),
       Call("_set_analog_input_filter") >>

\* The calls of each flow after _verify_channels_enable_status, in order.
play_analog_signal(channels, trigger, data) ==
    ForEach(channels,
        << Call("_set_analog_output_generator_function") >>
        \o When(data = "given", << Call("_set_analog_output_data") >>)
        \o When(data = "missing", << Call("raise RuntimeError") >>)
        \o << Call("_set_analog_output_idle_state"),
              Call("_set_analog_output_frequency"),
              Call("_set_analog_output_amplitude"),
              Call("_set_analog_output_offset"),
              Call("_set_analog_output_symmetry"),
              Call("_set_analog_output_phase"),
              Call("_set_analog_output_run_duration"),
              Call("_set_analog_output_wait_duration"),
              Call("_set_analog_output_repeats_count") >>
        \o When(trigger, << Call("_set_analog_output_trigger_source"),
                            Call("_set_analog_output_trigger_slope") >>))
    \o ForEach(channels,
        << Call("_get_analog_output_idle_state"),
           Call("_get_analog_output_generator_function"),
           Call("_get_analog_output_frequency"),
           Call("_get_analog_output_amplitude"),
           Call("_get_analog_output_offset"),
           Call("_get_analog_output_phase"),
           Call("_get_analog_output_symmetry"),
           Call("_get_analog_output_run_duration"),
           Call("_get_analog_output_wait_duration"),
           Call("_get_analog_output_repeats_count"),
           Call("_get_analog_output_trigger_source"),
           Call("_get_analog_output_trigger_slope"),
           Call("time.sleep") >>)
    \o ForEach(channels, << Call("_start_analog_output") >>)

record_analog_signal(channels, trigger) ==
    << Call("_disable_auto_configure"),
       Call("_set_analog_input_acquisition_mode"),
       Call("_set_analog_input_sampling_frequency"),
       Call("_set_analog_input_record_length") >>
    \o ForEach(channels, InputChannelBlock)
    \o When(trigger, InputTriggerBlock)
    \o << Call("_stop_analog_input"),
          Call("time.sleep"),
          Call("_start_analog_input") >>

start_analog_screen(channels) ==
    << Call("_get_analog_input_buffer_size_info"),
       Call("_disable_auto_configure"),
       Call("_set_analog_input_buffer_size"),
       Call("_set_analog_input_acquisition_mode"),
       Call("_set_analog_input_sampling_frequency") >>
    \o ForEach(channels, InputChannelBlock)
    \o << Call("_stop_analog_input"),
          Call("time.sleep"),
          Call("_start_analog_input") >>

perform_single_analog_acquisition(trigger) ==
    << Call("_get_analog_input_buffer_size_info"),
       Call("_disable_auto_configure"),
       Call("_set_analog_input_buffer_size"),
       Call("_set_analog_input_sampling_frequency") >>
    \o InputChannelBlock
    \o When(trigger, InputTriggerBlock)
    \o << Call("time.sleep"),
          Call("_start_analog_input"),
          PollUntil(DwfStateDone),
          Call("FDwfAnalogInStatusData") >>

start_analog_acquisition(channels, trigger, single) ==
    << Call("_get_analog_input_buffer_size_info"),
       Call("_disable_auto_configure"),
       Call("_set_analog_input_buffer_size"),
       Call("_set_analog_input_sampling_frequency") >>
    \o When(single, << Call("_set_analog_input_acquisition_mode") >>)
    \o ForEach(channels, InputChannelBlock)
    \o When(trigger, InputTriggerBlock)
    \o << Call("_stop_analog_input"),
          Call("time.sleep"),
          Call("_start_analog_input") >>

RECURSIVE Repeat(_, _)
Repeat(n, body) == IF n = 0 THEN << >> ELSE body \o Repeat(n - 1, body)

perform_ac_rms_data_logging(rounds) ==
    << Call("_get_analog_input_buffer_size_info"),
       Call("_set_analog_input_acquisition_mode"),
       Call("_set_analog_input_sampling_frequency"),
       Call("_set_analog_input_buffer_size"),
       Call("_set_analog_input_range"),
       Call("_stop_analog_input"),
       Call("time.sleep"),
       Call("_start_analog_input") >>
    \o Repeat(rounds,
        << Call("time.sleep"),
           Call("_get_analog_input_status"),
           Call("_get_analog_input_valid_samples"),
           Call("_get_analog_input_record_data") >>)

\* `for i in range(n_captures)`: the poll loop, one data read per channel
\* (return_code is overwritten by the next call and the reads' statuses are
\* never tested), the trigger time, whose status is tested.
retrieve_analog_acquisitions(channels, n_captures) ==
    Repeat(n_captures,
        << PollUntil(DwfStateDone) >>
        \o ForEach(channels, << Deferred("FDwfAnalogInStatusData") >>)
        \o << Call("FDwfAnalogInStatusTime") >>)

perform_fft_measurements ==
    << Call("_disable_auto_configure"),
       Call("_get_analog_input_buffer_size_info"),
       Call("_set_analog_input_sampling_frequency"),
       Call("_set_analog_input_buffer_size"),
       Call("_set_analog_input_range"),
       Call("_stop_analog_input"),
       Call("time.sleep"),
       Call("_start_analog_input"),
       Call("_get_analog_input_sampling_frequency"),
       PollUntil(DwfStateDone),
       Call("FDwfAnalogInStatusData"),
       Call("FDwfSpectrumWindow"),
       Call("FDwfSpectrumFFT") >>

perform_spectrum_measurements ==
    << Call("_disable_auto_configure"),
       Call("_get_analog_input_buffer_size_info"),
       Call("_set_analog_input_sampling_frequency"),
       Call("_set_analog_input_buffer_size"),
       Call("_set_analog_input_range"),
       Call("_stop_analog_input"),
       Call("time.sleep"),
       Call("_start_analog_input"),
       Call("_get_analog_input_sampling_frequency"),
       PollUntil(DwfStateDone),
       Call("FDwfAnalogInStatusData"),
       Call("FDwfSpectrumWindow"),
       Call("FDwfSpectrumTransform") >>

perform_sine_sweep_measurements ==
    << Call("_get_analog_input_buffer_size_info"),
       Call("_disable_auto_configure"),
       Call("_set_analog_output_generator_function"),
       Call("_set_analog_output_frequency"),
       Call("_set_analog_output_amplitude"),
       Call("_set_analog_output_offset"),
       Deferred("FDwfAnalogOutNodeEnableSet"),
       Deferred("FDwfAnalogOutNodeFunctionSet"),
       Deferred("FDwfAnalogOutNodeFrequencySet"),
       Deferred("FDwfAnalogOutNodeAmplitudeSet"),
       Deferred("FDwfAnalogOutNodeSymmetrySet"),
       Call("check return codes"),
       Call("_set_analog_output_run_duration"),
       Call("_set_analog_output_repeats_count"),
       Call("_set_analog_input_sampling_frequency"),
       Call("_set_analog_input_buffer_size"),
       Call("_set_analog_input_range"),
       Call("_set_analog_input_trigger_source"),
       Call("_set_analog_input_trigger_position"),
       Call("_start_analog_input"),
       PollUntil(DwfStateArmed),
       Call("time.sleep"),
       Call("_start_analog_output"),
       PollUntil(DwfStateDone),
       Call("FDwfAnalogInStatusData") >>

\* The call sequence of the invoked flow, for its arguments.
FlowCalls ==
    CASE gflow = "play_analog_signal" ->
            play_analog_signal(targets, trigger_source, analog_data)
      [] gflow = "record_analog_signal" ->
            record_analog_signal(targets, trigger_source)
      [] gflow = "start_analog_screen" ->
            start_analog_screen(targets)
      [] gflow = "perform_single_analog_acquisition" ->
            perform_single_analog_acquisition(trigger_source)
      [] gflow = "start_analog_acquisition" ->
            start_analog_acquisition(targets, trigger_source, single_acquisition)
      [] gflow = "perform_ac_rms_data_logging" ->
            perform_ac_rms_data_logging(iterations)
      [] gflow = "perform_fft_measurements" -> perform_fft_measurements
      [] gflow = "perform_spectrum_measurements" -> perform_spectrum_measurements
      [] gflow = "perform_sine_sweep_measurements" -> perform_sine_sweep_measurements
      [] gflow = "retrieve_analog_acquisitions" ->
            retrieve_analog_acquisitions(targets, iterations)
      [] OTHER -> << >>

\* Calls that program a parameter of the instrument.
ProgramCalls ==
    { "_set_analog_output_generator_function", "_set_analog_output_data",
      "_set_analog_output_idle_state", "_set_analog_output_frequency",
      "_set_analog_output_amplitude", "_set_analog_output_offset",
      "_set_analog_output_symmetry", "_set_analog_output_phase",
      "_set_analog_output_run_duration", "_set_analog_output_wait_duration",
      "_set_analog_output_repeats_count", "_set_analog_output_trigger_source",
      "_set_analog_output_trigger_slope", "_set_analog_input_acquisition_mode",
      "_set_analog_input_sampling_frequency", "_set_analog_input_record_length",
      "_set_analog_input_buffer_size", "_set_analog_input_range",
      "_set_analog_input_offset", "_set_analog_input_filter",
      "_set_analog_input_trigger_source", "_set_analog_input_trigger_position",
      "_set_analog_input_trigger_type", "_set_analog_input_trigger_channel",
      "_set_analog_input_trigger_level", "_set_analog_input_trigger_hysteresis",
      "_set_analog_input_trigger_condition", "FDwfAnalogOutNodeEnableSet",
      "FDwfAnalogOutNodeFunctionSet", "FDwfAnalogOutNodeFrequencySet",
      "FDwfAnalogOutNodeAmplitudeSet", "FDwfAnalogOutNodeSymmetrySet" }

\* Calls that switch the auto-configure mode of the device.
AutoConfigureCalls == { "_disable_auto_configure", "_enable_dynamic_auto_configure" }

\* Calls that configure, start or stop an instrument.
ConfigureCalls == { "_start_analog_input", "_stop_analog_input",
                    "_start_analog_output" }

StateChangingCalls == ProgramCalls \cup AutoConfigureCalls \cup ConfigureCalls

\* Steps of a call sequence that do not cross the device boundary.
LocalSteps == { "time.sleep", "raise RuntimeError", "check return codes" }

\* The number of state-changing device calls in a call log.
RECURSIVE StateChangingCount(_)
StateChangingCount(log_) ==
    IF log_ = << >> THEN 0
    ELSE (IF Head(log_) \in StateChangingCalls THEN 1 ELSE 0)
         + StateChangingCount(Tail(log_))

\* The channel list a flow hands to _verify_channels_enable_status, with the
\* sine sweep checking only its input channel
GatedChannels_InputOnly(flow, channels) ==
    IF flow = "perform_sine_sweep_measurements" THEN << channels[1] >> ELSE channels

\* The channel list a flow hands to _verify_channels_enable_status: every
\* channel it targets (the sine sweep: [input_channel, output_channel]).
GatedChannels(flow, channels) == channels

\* The channel argument of a call: the loop variable, or the sweep's
\* output_channel for the analog output calls it makes outside a loop.
CallChannel(flow, channels, step) ==
    IF flow = "perform_sine_sweep_measurements"
    THEN (IF step.call \in { "_start_analog_output", "_set_analog_output_generator_function",
                             "_set_analog_output_frequency", "_set_analog_output_amplitude",
                             "_set_analog_output_offset", "_set_analog_output_run_duration",
                             "_set_analog_output_repeats_count" }
               \/ step.deferred
          THEN channels[2] ELSE NoChannel)
    ELSE step.ch

\* _start_analog_output(ch): the channel's generator runs once the call
\* succeeded.
StartEffect(states, call, rc, channel) ==
    IF call = "_start_analog_output" /\ rc = SUCCESS_RETURN_CODE
    THEN [states EXCEPT ![channel] = DwfStateRunning]
    ELSE states

\* `state != 1` left out of the loop
ChannelEnabled_Unchecked(state) == TRUE

\* The test of _verify_channels_enable_status on one channel's enable state.
ChannelEnabled(state) == state = 1

InitGate ==
    /\ DrainIdle
    /\ WorkerIdle
    /\ AuxIdle
    /\ gflow \in Flows \cup UngatedFlows
    /\ targets \in TargetsOf(gflow)
    /\ isList \in (IF gflow \in ListCheckedFlows THEN BOOLEAN ELSE { TRUE })
    /\ trigger_source \in (IF gflow \in TriggerFlows THEN BOOLEAN ELSE { FALSE })
    /\ single_acquisition \in (IF gflow = "start_analog_acquisition"
                                 THEN BOOLEAN ELSE { FALSE })
    /\ analog_data \in (IF gflow = "play_analog_signal"
                          THEN { "unused", "given", "missing" } ELSE { "unused" })
    /\ iterations \in (CASE gflow = "perform_ac_rms_data_logging" -> 0..MaxLogs
                         [] gflow = "retrieve_analog_acquisitions" -> 0..MaxCaptures
                         [] OTHER -> { 0 })
    /\ enable_state \in [GateChannels -> { 0, 1 }]
    /\ gpc = "called"
    /\ gi = 0
    /\ ip = 0
    /\ calls = << >>
    /\ gerr = "none"
    /\ gpolls = 0
    /\ return_codes_failed = FALSE
    /\ verifyOutcome = "pending"
    /\ output_state = [c \in AnalogOutputChannel |-> DwfStateReady]
    /\ written = {}
    /\ dones = 0

\* The head of a flow: the list-type check, where the flow has one; a flow
\* without an enable check goes straight to its body.
Flow_enter ==
    /\ gpc = "called"
    /\ IF gflow \in ListCheckedFlows /\ ~isList
         THEN /\ gpc' = "raised"
              /\ gerr' = "precondition"
              /\ UNCHANGED << gi, ip >>
         ELSE IF gflow \in UngatedFlows
         THEN /\ gpc' = "program"
              /\ ip' = 1
              /\ UNCHANGED << gi, gerr >>
         ELSE /\ gpc' = "verify"
              /\ gerr' = gerr
              /\ gi' = 1
              /\ ip' = ip
    /\ UNCHANGED << gflow, targets, isList, trigger_source, single_acquisition,
                    analog_data, iterations, enable_state, calls, gpolls,
                    return_codes_failed, verifyOutcome >>
    /\ UNCHANGED << output_state, written, dones >>
    /\ UNCHANGED << drainVars, workerVars, auxVars >>

\* _verify_channels_enable_status: one iteration of `for ch in channels`,
\* or the normal return after the last one.
verify_channels_enable_status ==
    /\ gpc = "verify"
    /\ LET channels == GatedChannels(gflow, targets)
       IN IF gi > Len(channels)
            THEN /\ gpc' = "program"
                 /\ ip' = 1
                 /\ verifyOutcome' = "returned"
                 /\ UNCHANGED << gi, calls, gerr >>
            ELSE \E rc \in ReturnCodes :
                    /\ calls' = Append(calls, "get_analog_channel_enable_state")
                    /\ ip' = ip
                    /\ IF rc # SUCCESS_RETURN_CODE
                         THEN /\ gpc' = "raised"
                              /\ gerr' = "device"
                              /\ verifyOutcome' = "device"
                              /\ gi' = gi
                         ELSE IF ~ChannelEnabled(enable_state[channels[gi]])
                                THEN /\ gpc' = "raised"
                                     /\ gerr' = "precondition"
                                     /\ verifyOutcome' = "precondition"
                                     /\ gi' = gi
                                ELSE /\ gi' = gi + 1
                                     /\ UNCHANGED << gpc, gerr, verifyOutcome >>
    /\ UNCHANGED << gflow, targets, isList, trigger_source, single_acquisition,
                    analog_data, iterations, enable_state, gpolls,
                    return_codes_failed >>
    /\ UNCHANGED << output_state, written, dones >>
    /\ UNCHANGED << drainVars, workerVars, auxVars >>

\* The next step of the flow body that is made once: a device call that
\* raises on a failure status, a native call whose status is collected, the
\* check of the collected statuses, a sleep, or a raise.
Flow_call ==
    /\ gpc = "program"
    /\ ip <= Len(FlowCalls)
    /\ LET step == FlowCalls[ip]
       IN /\ step.until = {}
          /\ calls' = Append(calls, step.call)
          /\ written' = IF step.call \in StateChangingCalls
                         THEN written \cup { CallChannel(gflow, targets, step) }
                         ELSE written
          /\ \E rc \in (IF step.call \in LocalSteps
                          THEN { SUCCESS_RETURN_CODE } ELSE ReturnCodes) :
               /\ output_state' = StartEffect(output_state, step.call, rc,
                                              CallChannel(gflow, targets, step))
               /\ CASE step.call = "raise RuntimeError" ->
                        /\ gpc' = "raised"
                        /\ gerr' = "precondition"
                        /\ UNCHANGED << ip, return_codes_failed >>
                 [] step.call = "check return codes" ->
                        IF return_codes_failed
                          THEN /\ gpc' = "raised"
                               /\ gerr' = "device"
                               /\ UNCHANGED << ip, return_codes_failed >>
                          ELSE /\ ip' = ip + 1
                               /\ UNCHANGED << gpc, gerr, return_codes_failed >>
                 [] step.deferred ->
                        /\ return_codes_failed' =
                              (return_codes_failed \/ rc # SUCCESS_RETURN_CODE)
                        /\ ip' = ip + 1
                        /\ UNCHANGED << gpc, gerr >>
                 [] OTHER ->
                        IF rc # SUCCESS_RETURN_CODE
                          THEN /\ gpc' = "raised"
                               /\ gerr' = "device"
                               /\ UNCHANGED << ip, return_codes_failed >>
                          ELSE /\ ip' = ip + 1
                               /\ UNCHANGED << gpc, gerr, return_codes_failed >>
    /\ UNCHANGED << gflow, targets, isList, trigger_source, single_acquisition,
                    analog_data, iterations, enable_state, gi, gpolls,
                    verifyOutcome, dones >>
    /\ UNCHANGED << drainVars, workerVars, auxVars >>

\* One iteration of `while True: status = self._get_analog_input_status(...)`:
\* the loop is left when the instrument reports the awaited state.
Flow_poll ==
    /\ gpc = "program"
    /\ ip <= Len(FlowCalls)
    /\ LET step == FlowCalls[ip]
       IN /\ step.until # {}
          /\ calls' = Append(calls, step.call)
          /\ \E rc \in ReturnCodes, status \in AnalogInstrumentState :
               IF rc # SUCCESS_RETURN_CODE
                 THEN /\ gpc' = "raised"
                      /\ gerr' = "device"
                      /\ UNCHANGED << ip, gpolls, dones >>
                 ELSE /\ dones' = IF status = DwfStateDone THEN dones + 1 ELSE dones
                      /\ IF status \in step.until
                           THEN /\ ip' = ip + 1
                                /\ gpolls' = 0
                                /\ UNCHANGED << gpc, gerr >>
                           ELSE /\ gpolls < MaxPolls
                                /\ gpolls' = gpolls + 1
                                /\ UNCHANGED << ip, gpc, gerr >>
    /\ UNCHANGED << gflow, targets, isList, trigger_source, single_acquisition,
                    analog_data, iterations, enable_state, gi,
                    return_codes_failed, verifyOutcome >>
    /\ UNCHANGED << output_state, written >>
    /\ UNCHANGED << drainVars, workerVars, auxVars >>

\* The flow returns after its last call.
Flow_return ==
    /\ gpc = "program"
    /\ ip > Len(FlowCalls)
    /\ gpc' = "returned"
    /\ UNCHANGED << gflow, targets, isList, trigger_source, single_acquisition,
                    analog_data, iterations, enable_state, gi, ip, calls, gerr,
                    gpolls, return_codes_failed, verifyOutcome >>
    /\ UNCHANGED << output_state, written, dones >>
    /\ UNCHANGED << drainVars, workerVars, auxVars >>

NextGate ==
    \/ Flow_enter
    \/ verify_channels_enable_status
    \/ Flow_call
    \/ Flow_poll
    \/ Flow_return

SpecGate == InitGate /\ [][NextGate]_vars

\* ========================================================================
\* Error propagation of the wrapper operations
\* ========================================================================

\* Wrapper operations, one or more of each way of checking native statuses.
ErrorOps ==
    { "_set_analog_input_range", "_get_analog_input_range",
      "_start_analog_input", "get_analog_channel_enable_state",
      "_set_analog_output_trigger_slope", "_get_analog_output_trigger_slope",
      "_set_analog_output_idle_state", "_get_analog_output_idle_state",
      "perform_sine_sweep_measurements", "retrieve_analog_screen" }

\* The operations whose raise reads `self.get_last_error_message` without
\* calling it.
UncalledMessageOps ==
    { "_set_analog_output_trigger_slope", "_get_analog_output_trigger_slope",
      "_set_analog_output_idle_state", "_get_analog_output_idle_state" }

\* What an exception holds as its message: a string, or the bound method.
Str(text) == [type |-> "str", value |-> text]
BoundMethod == [type |-> "method", value |-> "get_last_error_message"]

\* The messages of the device's last-error fixture.
ErrorMessages == { "device busy", "invalid parameter" }

\* The native calls an operation makes before it looks at a status.
NativeCalls(op) ==
    CASE op = "perform_sine_sweep_measurements" ->
            << "FDwfAnalogOutNodeEnableSet", "FDwfAnalogOutNodeFunctionSet",
               "FDwfAnalogOutNodeFrequencySet", "FDwfAnalogOutNodeAmplitudeSet",
               "FDwfAnalogOutNodeSymmetrySet" >>
      [] op = "retrieve_analog_screen" ->
            << "FDwfAnalogInStatus", "FDwfAnalogInStatusSamplesValid",
               "FDwfAnalogInStatusData" >>
      [] OTHER -> << op >>

\* The statuses an operation tests after those calls: every one of them
\* (the sweep's list of return codes), or the last (return_code is
\* overwritten by each call of retrieve_analog_screen).
StatusFailed(op, codes) ==
    IF op = "retrieve_analog_screen"
    THEN codes[Len(codes)] # SUCCESS_RETURN_CODE
    ELSE \E k \in 1..Len(codes) : codes[k] # SUCCESS_RETURN_CODE

InitError ==
    /\ DrainIdle
    /\ WorkerIdle
    /\ GateIdle
    /\ ContextIdle
    /\ FixtureIdle
    /\ DigitalIdle
    /\ SpiIdle
    /\ eop \in ErrorOps
    /\ epc = "native"
    /\ native_rcs = << >>
    /\ last_error = NoError
    /\ err_code = 0
    /\ exc = NoException
    /\ failure = NoError

\* One native call of the operation.  A failing call sets the device's last
\* error; a succeeding call clears it ("The error code is cleared when other
\* API functions are called").  After the last call the statuses are tested.
Error_native ==
    /\ epc = "native"
    /\ Len(native_rcs) < Len(NativeCalls(eop))
    /\ \E rc \in ReturnCodes, code \in 1..MaxErrorCode, msg \in ErrorMessages :
          LET reported == IF rc = SUCCESS_RETURN_CODE THEN NoError
                         ELSE [code |-> code, msg |-> msg]
              codes == Append(native_rcs, rc)
          IN /\ native_rcs' = codes
             /\ last_error' = reported
             /\ failure' = IF failure = NoError THEN reported ELSE failure
             /\ epc' = IF Len(codes) < Len(NativeCalls(eop)) THEN "native"
                       ELSE IF StatusFailed(eop, codes) THEN "get_last_error"
                       ELSE "returned"
    /\ UNCHANGED << eop, err_code, exc >>
    /\ UNCHANGED errRest

\* get_last_error(): FDwfGetLastError
get_last_error ==
    /\ epc = "get_last_error"
    /\ err_code' = last_error.code
    /\ epc' = "get_last_error_message"
    /\ UNCHANGED << eop, native_rcs, last_error, exc, failure >>
    /\ UNCHANGED errRest

\* The second argument of PyDwfError(...) at the raise of an operation.
RaisedMessage(op, text) ==
    IF op \in UncalledMessageOps THEN BoundMethod ELSE Str(text)

\* raise PyDwfError(self.get_last_error(), self.get_last_error_message())
Error_raise ==
    /\ epc = "get_last_error_message"
    /\ exc' = [error_code |-> err_code,
               error_message |-> RaisedMessage(eop, last_error.msg)]
    /\ epc' = "raised"
    /\ UNCHANGED << eop, native_rcs, last_error, err_code, failure >>
    /\ UNCHANGED errRest

NextError ==
    \/ Error_native
    \/ get_last_error
    \/ Error_raise

SpecError == InitError /\ [][NextError]_vars

\* ========================================================================
\* Context managers
\* ========================================================================

ContextKinds ==
    { "AnalogDiscoveryScopeWaveGenContext", "AnalogDiscoveryI2CContext",
      "AnalogDiscoveryDigitalIOContext", "AnalogDiscoveryPowerSupplyContext",
      "AnalogDiscoverySPIContext", "SMUContext" }

\* n times the same call
Times(n, call) == [k \in 1..n |-> call]

\* SMUContext.__enter__
SMUContext_enter_CaptureFirst ==
    << "open", "start_capture", "set_channel_mode(CH_A)", "set_channel_mode(CH_B)",
       "set_channel_constant_output(CH_A)", "set_channel_constant_output(CH_B)",
       "time.sleep" >>

SMUContext_enter ==
    << "open", "set_channel_mode(CH_A)", "set_channel_mode(CH_B)",
       "set_channel_constant_output(CH_A)", "set_channel_constant_output(CH_B)",
       "time.sleep", "start_capture" >>

\* SMUContext.__exit__
SMUContext_exit ==
    << "set_channel_mode(CH_A, HI_Z)", "set_channel_mode(CH_B, HI_Z)",
       "end_capture", "close" >>

\* The calls __enter__ makes on the wrapper, in order.
EnterCalls(cls, n) ==
    CASE cls = "AnalogDiscoveryScopeWaveGenContext" ->
            << "open_connection" >> \o Times(n, "enable_analog_channel")
      [] cls = "AnalogDiscoveryI2CContext" ->
            << "open_connection", "configure_i2c" >>
      [] cls = "AnalogDiscoveryDigitalIOContext" ->
            << "open_connection" >> \o Times(n, "set_digital_io_channel_mode")
      [] cls = "AnalogDiscoveryPowerSupplyContext" ->
            << "open_connection", "configure_power_supply" >>
      [] cls = "AnalogDiscoverySPIContext" ->
            << "open_connection", "configure_spi" >>
      [] cls = "SMUContext" -> SMUContext_enter

\* The calls __exit__ makes on the wrapper, in order.
ExitCalls(cls, n) ==
    CASE cls = "AnalogDiscoveryScopeWaveGenContext" ->
            << "_enable_dynamic_auto_configure", "_reset_analog_input_config" >>
            \o Times(n, "_reset_analog_output_config") \o << "close_connection" >>
      [] cls = "AnalogDiscoveryI2CContext" -> << "reset_i2c", "close_connection" >>
      [] cls = "AnalogDiscoveryDigitalIOContext" ->
            << "_reset_digital_io_config", "close_connection" >>
      [] cls = "AnalogDiscoveryPowerSupplyContext" ->
            << "_reset_analog_io_config", "close_connection" >>
      [] cls = "AnalogDiscoverySPIContext" -> << "reset_spi", "close_connection" >>
      [] cls = "SMUContext" -> SMUContext_exit

OpenCalls == { "open_connection", "open" }
CloseCalls == { "close_connection", "close" }

\* How a call can end: "ok", or the exception it raises.  Every call on the
\* Analog Discovery raises PyDwfError on a failing native status, and
\* configure_i2c raises RuntimeError on a locked bus (_clear_i2c_bus);
\* ADALM1KWrapper.open raises RuntimeError when no device is detected, and
\* the other calls pass on what libsmu raises.
Outcomes(call) ==
    CASE call = "time.sleep" -> { "ok" }
      [] call = "configure_i2c" -> { "ok", "PyDwfError", "RuntimeError" }
      [] call = "open" -> { "ok", "RuntimeError" }
      [] call \in { SMUContext_enter[k] : k \in 2..Len(SMUContext_enter) }
                  \cup { SMUContext_exit[k] : k \in 1..Len(SMUContext_exit) } ->
            { "ok", "libsmu error" }
      [] OTHER -> { "ok", "PyDwfError" }

\* What a successful call does to the ADALM1K.
SMUEffect(call, dev, modes, n) ==
    CASE call = "set_channel_mode(CH_A)" -> [dev EXCEPT !.mode_a = modes[1]]
      [] call = "set_channel_mode(CH_B)" -> [dev EXCEPT !.mode_b = modes[2]]
      [] call = "set_channel_mode(CH_A, HI_Z)" -> [dev EXCEPT !.mode_a = "HI_Z"]
      [] call = "set_channel_mode(CH_B, HI_Z)" -> [dev EXCEPT !.mode_b = "HI_Z"]
      [] call = "start_capture" -> [dev EXCEPT !.capture = Bound(n)]
      [] call = "end_capture" -> [dev EXCEPT !.capture = "off"]
      [] OTHER -> dev

InitContext ==
    /\ DrainIdle
    /\ WorkerIdle
    /\ GateIdle
    /\ ErrorIdle
    /\ FixtureIdle
    /\ DigitalIdle
    /\ SpiIdle
    /\ ctx_kind \in ContextKinds
    /\ ctx_channels \in (IF ctx_kind \in { "AnalogDiscoveryScopeWaveGenContext",
                                          "AnalogDiscoveryDigitalIOContext" }
                         THEN 0..MaxCtxChannels ELSE { 0 })
    /\ ch_modes \in (IF ctx_kind = "SMUContext"
                     THEN AnalogChannelMode \X AnalogChannelMode
                     ELSE { << "HI_Z", "HI_Z" >> })
    /\ n_samples \in (IF ctx_kind = "SMUContext" THEN 0..MaxSamples ELSE { 0 })
    /\ cpc = "enter"
    /\ ci = 0
    /\ cexc = "none"
    /\ smu = SMUUnconfigured
    /\ ctx_calls = << >>
    /\ conn_opens = 0
    /\ conn_closes = 0
    /\ seen_modes = << >>

\* One call of __enter__.  An exception leaves __enter__ at once, and the
\* with statement does not run __exit__ then; only AnalogDiscoveryI2CContext
\* catches, and only RuntimeError.
Context_enter ==
    /\ cpc = "enter"
    /\ LET call == EnterCalls(ctx_kind, ctx_channels)[ci + 1]
       IN \E outcome \in Outcomes(call) :
             /\ ctx_calls' = Append(ctx_calls, call)
             /\ conn_opens' = IF call \in OpenCalls /\ outcome = "ok"
                              THEN conn_opens + 1 ELSE conn_opens
             /\ IF outcome = "ok"
                THEN /\ smu' = SMUEffect(call, smu, ch_modes, n_samples)
                     /\ ci' = IF ci + 1 = Len(EnterCalls(ctx_kind, ctx_channels))
                              THEN 0 ELSE ci + 1
                     /\ cpc' = IF ci + 1 = Len(EnterCalls(ctx_kind, ctx_channels))
                               THEN "body" ELSE "enter"
                     /\ UNCHANGED cexc
                ELSE /\ cexc' = outcome
                     /\ cpc' = IF /\ ctx_kind = "AnalogDiscoveryI2CContext"
                                  /\ call \notin OpenCalls
                                  /\ outcome = "RuntimeError"
                               THEN "except" ELSE "raised"
                     /\ UNCHANGED << smu, ci >>
    /\ UNCHANGED << ctx_kind, ctx_channels, ch_modes, n_samples, conn_closes, seen_modes >>
    /\ UNCHANGED ctxRest

\* AnalogDiscoveryI2CContext.__enter__: except RuntimeError: close_connection(); raise
Context_enter_except ==
    /\ cpc = "except"
    /\ \E outcome \in Outcomes("close_connection") :
          /\ ctx_calls' = Append(ctx_calls, "close_connection")
          /\ conn_closes' = conn_closes + 1
          /\ cexc' = IF outcome = "ok" THEN cexc ELSE outcome
          /\ cpc' = "raised"
    /\ UNCHANGED << ctx_kind, ctx_channels, ch_modes, n_samples, ci, smu, conn_opens,
                    seen_modes >>
    /\ UNCHANGED ctxRest

\* The body of the with statement: it reads the channel modes
\* (get_channel_mode re-reads the device) and ends normally or by an
\* exception; __exit__ runs in both cases.
Context_body ==
    /\ cpc = "body"
    /\ \E outcome \in { "none", "body exception" } :
          cexc' = outcome
    /\ seen_modes' = << smu.mode_a, smu.mode_b >>
    /\ cpc' = "exit"
    /\ UNCHANGED << ctx_kind, ctx_channels, ch_modes, n_samples, ci, smu, ctx_calls,
                    conn_opens, conn_closes >>
    /\ UNCHANGED ctxRest

\* One call of __exit__.  An exception leaves __exit__ at once; __exit__
\* returns None, so the body's exception is raised again after it.
Context_exit ==
    /\ cpc = "exit"
    /\ LET call == ExitCalls(ctx_kind, ctx_channels)[ci + 1]
       IN \E outcome \in Outcomes(call) :
             /\ ctx_calls' = Append(ctx_calls, call)
             /\ conn_closes' = IF call \in CloseCalls
                               THEN conn_closes + 1 ELSE conn_closes
             /\ IF outcome = "ok"
                THEN /\ smu' = SMUEffect(call, smu, ch_modes, n_samples)
                     /\ ci' = ci + 1
                     /\ cpc' = IF ci + 1 < Len(ExitCalls(ctx_kind, ctx_channels))
                               THEN "exit"
                               ELSE IF cexc = "none" THEN "done" ELSE "raised"
                     /\ UNCHANGED cexc
                ELSE /\ cexc' = outcome
                     /\ cpc' = "raised"
                     /\ UNCHANGED << smu, ci >>
    /\ UNCHANGED << ctx_kind, ctx_channels, ch_modes, n_samples, conn_opens, seen_modes >>
    /\ UNCHANGED ctxRest

NextContext ==
    \/ Context_enter
    \/ Context_enter_except
    \/ Context_body
    \/ Context_exit

SpecContext == InitContext /\ [][NextContext]_vars

\* ========================================================================
\* Fixtures with required options
\* ========================================================================

Fixtures == { "analog_discovery_supplies", "adalm1k_voltage_source",
              "adalm1k_current_source" }

\* Each fixture reads two ini options, ini[1] and ini[2] in the order it
\* tests them: analog_discovery_supplies_positive_voltage and .._negative_voltage;
\* adalm1k_ch_a_voltage and adalm1k_ch_b_voltage; adalm1k_ch_a_current and
\* adalm1k_ch_b_current.
\* What getini returns for a string option: None (the default, as << >>),
\* or the string of the ini file.
IniValues == { << >>, << "" >>, << "3.3" >> }

\* `not value`
Falsy(value) == value = << >> \/ value = << "" >>

\* the set-up part of a fixture with the test of the options after the calls
FixtureSetup_CheckLast(fx) ==
    IF fx = "analog_discovery_supplies"
    THEN << "configure_power_supply", "enable_power_supply", "check options" >>
    ELSE << "set_channel_mode(CH_A)", "set_channel_mode(CH_B)", "flush",
            "set_channel_constant_output(CH_A)", "set_channel_constant_output(CH_B)",
            "time.sleep", "start_capture", "check options" >>

\* The set-up part of a fixture (up to its yield): the test of the options,
\* then the calls on the wrapper.
FixtureSetup(fx) ==
    IF fx = "analog_discovery_supplies"
    THEN << "check options", "configure_power_supply", "enable_power_supply" >>
    ELSE << "check options", "set_channel_mode(CH_A)", "set_channel_mode(CH_B)",
            "flush", "set_channel_constant_output(CH_A)",
            "set_channel_constant_output(CH_B)", "time.sleep", "start_capture" >>

\* The tear-down part of a fixture (after its yield).
FixtureTeardown(fx) ==
    IF fx = "analog_discovery_supplies"
    THEN << "disable_power_supply" >>
    ELSE << "set_channel_mode(CH_A, HI_Z)", "set_channel_mode(CH_B, HI_Z)",
            "end_capture" >>

InitFixture ==
    /\ DrainIdle
    /\ WorkerIdle
    /\ GateIdle
    /\ ErrorIdle
    /\ ContextIdle
    /\ DigitalIdle
    /\ SpiIdle
    /\ fixture \in Fixtures
    /\ ini \in [1..2 -> IniValues]
    /\ fpc = "dependency"
    /\ fi = 0
    /\ ferr = "none"
    /\ fx_calls = << >>

\* The fixture this one depends on (analog_discovery, adalm1k) is set up
\* first: it opens the connection, or raises.
Fixture_dependency ==
    /\ fpc = "dependency"
    /\ \E opened \in BOOLEAN :
          IF opened
          THEN /\ fpc' = "setup"
               /\ UNCHANGED ferr
          ELSE /\ fpc' = "raised"
               /\ ferr' = "device"
    /\ UNCHANGED << fixture, ini, fi, fx_calls >>
    /\ UNCHANGED fixRest

\* One step of the fixture before its yield.
Fixture_setup ==
    /\ fpc = "setup"
    /\ LET step == FixtureSetup(fixture)[fi + 1]
           last == fi + 1 = Len(FixtureSetup(fixture))
       IN IF step = "check options"
          THEN /\ IF \E k \in 1..2 : Falsy(ini[k])
                  THEN /\ fpc' = "raised"
                       /\ ferr' = "configuration"
                       /\ UNCHANGED fi
                  ELSE /\ fpc' = IF last THEN "test" ELSE "setup"
                       /\ fi' = IF last THEN 0 ELSE fi + 1
                       /\ UNCHANGED ferr
               /\ UNCHANGED fx_calls
          ELSE /\ fx_calls' = Append(fx_calls, step)
               /\ \E ok \in (IF step = "time.sleep" THEN { TRUE } ELSE BOOLEAN) :
                     IF ok
                     THEN /\ fpc' = IF last THEN "test" ELSE "setup"
                          /\ fi' = IF last THEN 0 ELSE fi + 1
                          /\ UNCHANGED ferr
                     ELSE /\ fpc' = "raised"
                          /\ ferr' = "device"
                          /\ UNCHANGED fi
    /\ UNCHANGED << fixture, ini >>
    /\ UNCHANGED fixRest

\* The test that uses the fixture runs; the tear-down follows in any case.
Fixture_test ==
    /\ fpc = "test"
    /\ fpc' = "teardown"
    /\ UNCHANGED << fixture, ini, fi, ferr, fx_calls >>
    /\ UNCHANGED fixRest

\* One call of the fixture after its yield.
Fixture_teardown ==
    /\ fpc = "teardown"
    /\ LET step == FixtureTeardown(fixture)[fi + 1]
       IN /\ fx_calls' = Append(fx_calls, step)
          /\ \E ok \in BOOLEAN :
                IF ok
                THEN /\ fi' = fi + 1
                     /\ fpc' = IF fi + 1 = Len(FixtureTeardown(fixture))
                               THEN "done" ELSE "teardown"
                     /\ UNCHANGED ferr
                ELSE /\ fpc' = "raised"
                     /\ ferr' = "device"
                     /\ UNCHANGED fi
    /\ UNCHANGED << fixture, ini >>
    /\ UNCHANGED fixRest

NextFixture ==
    \/ Fixture_dependency
    \/ Fixture_setup
    \/ Fixture_test
    \/ Fixture_teardown

SpecFixture == InitFixture /\ [][NextFixture]_vars

\* ========================================================================
\* Digital I/O: read-modify-write of the output and output-enable masks
\* ========================================================================

\* The digital pins: DIO_0 .. DIO_15.
DigitalIOChannel == 0..15

\* the pins the calls of a run are made on
CalledChannels == { 0, 7, 15 }

\* masks the device can hold when a run starts
InitialMasks == { 23130, 42405 }

\* the width of the masks: c_uint16, zfill(16)
MaskWidth == 16

\* bin(n)[2:]: the binary digits of n, most significant first
RECURSIVE BinDigits(_)
BinDigits(n) ==
    IF n < 2 THEN << IF n = 1 THEN "1" ELSE "0" >>
    ELSE BinDigits(n \div 2) \o << IF n % 2 = 1 THEN "1" ELSE "0" >>

\* str.zfill(width)
RECURSIVE ZFill(_, _)
ZFill(digits, width) ==
    IF Len(digits) >= width THEN digits ELSE ZFill(<< "0" >> \o digits, width)

\* int("".join(mask), 2)
RECURSIVE IntBase2(_)
IntBase2(digits) ==
    IF digits = << >> THEN 0
    ELSE 2 * IntBase2(SubSeq(digits, 1, Len(digits) - 1))
         + (IF digits[Len(digits)] = "1" THEN 1 ELSE 0)

\* SetMaskBit writing mask[channel] instead of mask[15 - channel]
SetMaskBit_FromLeft(mask, channel, high) ==
    IntBase2([ZFill(BinDigits(mask), MaskWidth)
                 EXCEPT ![channel + 1] = IF high THEN "1" ELSE "0"])

\* mask = list(bin(mask.value)[2:].zfill(16));
\* mask[15 - channel.value] = "1" or "0"; mask = int("".join(mask), 2)
SetMaskBit(mask, channel, high) ==
    IntBase2([ZFill(BinDigits(mask), MaskWidth)
                 EXCEPT ![(15 - channel) + 1] = IF high THEN "1" ELSE "0"])

InitDigital ==
    /\ DrainIdle
    /\ WorkerIdle
    /\ GateIdle
    /\ ErrorIdle
    /\ ContextIdle
    /\ FixtureIdle
    /\ SpiIdle
    /\ dio_output \in InitialMasks
    /\ dio_enable \in InitialMasks
    /\ dio_n = 0
    /\ dio_call = [name |-> "none", channel |-> 0, value |-> FALSE,
                    outcome |-> "none", ret |-> FALSE]
    /\ dio_before = << dio_output, dio_enable >>
    /\ last_state_set = [c \in DigitalIOChannel |-> Unbound]
    /\ last_mode_set = [c \in DigitalIOChannel |-> Unbound]

\* FDwfDigitalIOOutputGet, the bit, FDwfDigitalIOOutputSet
set_digital_io_channel_state ==
    /\ dio_n < MaxDioCalls
    /\ dio_n' = dio_n + 1
    /\ dio_before' = << dio_output, dio_enable >>
    /\ \E channel \in CalledChannels, state \in BOOLEAN,
          rcGet \in ReturnCodes, rcSet \in ReturnCodes :
          LET done == rcGet = SUCCESS_RETURN_CODE /\ rcSet = SUCCESS_RETURN_CODE
          IN /\ dio_output' = IF done THEN SetMaskBit(dio_output, channel, state)
                              ELSE dio_output
             /\ last_state_set' = IF done
                                  THEN [last_state_set EXCEPT ![channel] = Bound(state)]
                                  ELSE last_state_set
             /\ dio_call' = [name |-> "set_digital_io_channel_state",
                             channel |-> channel, value |-> state,
                             outcome |-> IF done THEN "returned" ELSE "raised",
                             ret |-> FALSE]
    /\ UNCHANGED << dio_enable, last_mode_set >>
    /\ UNCHANGED << ioRest, spiVars >>

\* FDwfDigitalIOOutputEnableGet and the test of the bit:
\* mask = list(bin(mask.value)[2:].zfill(16)); mask[15 - channel.value] != "0"
get_digital_io_channel_mode ==
    /\ dio_n < MaxDioCalls
    /\ dio_n' = dio_n + 1
    /\ dio_before' = << dio_output, dio_enable >>
    /\ \E channel \in CalledChannels, rcGet \in ReturnCodes :
          dio_call' = [name |-> "get_digital_io_channel_mode",
                       channel |-> channel, value |-> FALSE,
                       outcome |-> IF rcGet = SUCCESS_RETURN_CODE
                                   THEN "returned" ELSE "raised",
                       ret |-> rcGet = SUCCESS_RETURN_CODE
                               /\ ZFill(BinDigits(dio_enable),
                                        MaskWidth)[(15 - channel) + 1] # "0"]
    /\ UNCHANGED << dio_output, dio_enable, last_state_set, last_mode_set >>
    /\ UNCHANGED << ioRest, spiVars >>

\* FDwfDigitalIOOutputEnableGet, the bit, FDwfDigitalIOOutputEnableSet
set_digital_io_channel_mode ==
    /\ dio_n < MaxDioCalls
    /\ dio_n' = dio_n + 1
    /\ dio_before' = << dio_output, dio_enable >>
    /\ \E channel \in CalledChannels, mode \in BOOLEAN,
          rcGet \in ReturnCodes, rcSet \in ReturnCodes :
          LET done == rcGet = SUCCESS_RETURN_CODE /\ rcSet = SUCCESS_RETURN_CODE
          IN /\ dio_enable' = IF done THEN SetMaskBit(dio_enable, channel, mode)
                              ELSE dio_enable
             /\ last_mode_set' = IF done
                                 THEN [last_mode_set EXCEPT ![channel] = Bound(mode)]
                                 ELSE last_mode_set
             /\ dio_call' = [name |-> "set_digital_io_channel_mode",
                             channel |-> channel, value |-> mode,
                             outcome |-> IF done THEN "returned" ELSE "raised",
                             ret |-> FALSE]
    /\ UNCHANGED << dio_output, last_state_set >>
    /\ UNCHANGED << ioRest, spiVars >>

NextDigital ==
    \/ set_digital_io_channel_state
    \/ get_digital_io_channel_mode
    \/ set_digital_io_channel_mode

SpecDigital == InitDigital /\ [][NextDigital]_vars

\* ========================================================================
\* SPI: chip select around the transfers
\* ========================================================================

\* The read, write and exchange operations, each with its transfer call.
TransferCall ==
    [ spi_one_read |-> "FDwfDigitalSpiReadOne",
      spi_8_bits_read |-> "FDwfDigitalSpiRead",
      spi_16_bits_read |-> "FDwfDigitalSpiRead16",
      spi_32_bits_read |-> "FDwfDigitalSpiRead32",
      spi_one_write |-> "FDwfDigitalSpiWriteOne",
      spi_8_bits_write |-> "FDwfDigitalSpiWrite",
      spi_16_bits_write |-> "FDwfDigitalSpiWrite16",
      spi_32_bits_write |-> "FDwfDigitalSpiWrite32",
      spi_8_bits_exchnage |-> "FDwfDigitalSpiWriteRead",
      spi_16_bits_exchnage |-> "FDwfDigitalSpiWriteRead16",
      spi_32_bits_exchnage |-> "FDwfDigitalSpiWriteRead32" ]

\* The setters configure_spi calls before it sets chip select.
ConfigureSetters ==
    << "_set_spi_frequency", "_set_spi_scl", "_set_spi_data", "_set_spi_idle_state",
       "_set_spi_data", "_set_spi_idle_state", "_set_spi_mode", "_set_spi_endianness" >>

\* _set_spi_cs(channel, cs_state): FDwfDigitalSpiSelect drives the line when
\* the call succeeds
FDwfDigitalSpiSelect(level, cs_state, rc) ==
    IF rc = SUCCESS_RETURN_CODE THEN cs_state ELSE level

InitSpi ==
    /\ DrainIdle
    /\ WorkerIdle
    /\ GateIdle
    /\ ErrorIdle
    /\ ContextIdle
    /\ FixtureIdle
    /\ DigitalIdle
    /\ spi_op = "none"
    /\ spi_pc = "ready"
    /\ cs_level \in { -1, 0, 1 }
    /\ spi_n = 0
    /\ spi_outcome = "none"
    /\ spi_configured = FALSE

\* configure_spi: the setters in order, each raising on a failure status,
\* then _set_spi_cs(cs.value, 1)
configure_spi ==
    /\ spi_pc = "ready"
    /\ spi_n < MaxSpiOps
    /\ spi_n' = spi_n + 1
    /\ spi_op' = "configure_spi"
    /\ \E failed \in 0..Len(ConfigureSetters), rc \in ReturnCodes :
          IF failed > 0
          THEN \* the failed-th setter raises
               /\ spi_outcome' = "raised"
               /\ UNCHANGED << cs_level, spi_configured >>
          ELSE /\ cs_level' = FDwfDigitalSpiSelect(cs_level, 1, rc)
               /\ spi_outcome' = IF rc = SUCCESS_RETURN_CODE THEN "returned" ELSE "raised"
               /\ spi_configured' = (spi_configured \/ rc = SUCCESS_RETURN_CODE)
    /\ UNCHANGED spi_pc
    /\ UNCHANGED << ioRest, dioVars >>

\* a read, write or exchange operation is called
Spi_call ==
    /\ spi_pc = "ready"
    /\ spi_n < MaxSpiOps
    /\ spi_n' = spi_n + 1
    /\ spi_op' \in DOMAIN TransferCall
    /\ spi_pc' = "select"
    /\ spi_outcome' = "none"
    /\ UNCHANGED << cs_level, spi_configured >>
    /\ UNCHANGED << ioRest, dioVars >>

\* "set chip select line low to enable it": self._set_spi_cs(cs.value, 0)
Spi_select ==
    /\ spi_pc = "select"
    /\ \E rc \in ReturnCodes :
          /\ cs_level' = FDwfDigitalSpiSelect(cs_level, 0, rc)
          /\ IF rc = SUCCESS_RETURN_CODE
             THEN /\ spi_pc' = "transfer"
                  /\ UNCHANGED spi_outcome
             ELSE /\ spi_pc' = "ready"
                  /\ spi_outcome' = "raised"
    /\ UNCHANGED << spi_op, spi_n, spi_configured >>
    /\ UNCHANGED << ioRest, dioVars >>

\* the transfer call of the operation and `if result != SUCCESS_RETURN_CODE:
\* raise PyDwfError(...)`
Spi_transfer ==
    /\ spi_pc = "transfer"
    /\ \E rc \in ReturnCodes :
          IF rc = SUCCESS_RETURN_CODE
          THEN /\ spi_pc' = "deselect"
               /\ UNCHANGED spi_outcome
          ELSE /\ spi_pc' = "ready"
               /\ spi_outcome' = "raised"
    /\ UNCHANGED << spi_op, cs_level, spi_n, spi_configured >>
    /\ UNCHANGED << ioRest, dioVars >>

\* "set chip select line high to disable it": self._set_spi_cs(cs.value, 1),
\* and the return
Spi_deselect ==
    /\ spi_pc = "deselect"
    /\ \E rc \in ReturnCodes :
          /\ cs_level' = FDwfDigitalSpiSelect(cs_level, 1, rc)
          /\ spi_outcome' = IF rc = SUCCESS_RETURN_CODE THEN "returned" ELSE "raised"
    /\ spi_pc' = "ready"
    /\ UNCHANGED << spi_op, spi_n, spi_configured >>
    /\ UNCHANGED << ioRest, dioVars >>

NextSpi ==
    \/ configure_spi
    \/ Spi_call
    \/ Spi_select
    \/ Spi_transfer
    \/ Spi_deselect

SpecSpi == InitSpi /\ [][NextSpi]_vars

\* ========================================================================
\* Claims about the drains (checked under SpecDrain)
\* ========================================================================

FifoReturned == kind \in { "fifo", "multi" } /\ pc = "returned"

\* C1: FIFO drain under zero loss.  When every poll of a FIFO drain
\* (fill_recorded_samples / fill_recorded_samples_on_channels) reported
\* lost = 0 and corrupted = 0 and the call returns, it returns one array per
\* requested channel, each of exactly samples_count samples, the per-poll
\* copied amounts sum to exactly samples_count, and no warning was logged.
C1_ZeroLossDrain ==
    (FifoReturned /\ lostTotal = 0 /\ corruptTotal = 0)
        => /\ Len(ret) = Len(input_channels)
           /\ \A i \in 1..Len(ret) : Len(ret[i]) = samples_count
           /\ copiedTotal = samples_count
           /\ log = {}

\* C1 witness: a zero-loss FIFO drain that needed more than one poll, the
\* last of them clamped, has returned.
C1_Witness ==
    /\ FifoReturned
    /\ lostTotal = 0 /\ corruptTotal = 0
    /\ ~copyFailed
    /\ samples_count = MaxCount
    /\ samples_count > MaxAvail
    /\ devPos > samples_count

\* C2 (as stated): FIFO drain under loss.  When the per-poll lost deltas of
\* a returned FIFO drain sum to L > 0 the "lost" warning has been logged, and
\* when the corrupted deltas sum to more than 0 the "corrupted" warning has
\* been logged (the warnings are decided on the sums over all polls); the
\* returned arrays still have exactly samples_count samples.
C2_LossIsWarned ==
    FifoReturned
        => /\ \A i \in 1..Len(ret) : Len(ret[i]) = samples_count
           /\ (lostTotal > 0 => "lost" \in log)
           /\ (corruptTotal > 0 => "corrupted" \in log)

\* C3: circular drain rotation.  When fill_recorded_samples_2 returns with
\* final write cursor c, the j-th returned sample (from 0) is the converted
\* ring element at index (c + j) mod samples_count, that is ring[c:] followed
\* by ring[:c], and the ring unrotated when c = 0; the result has exactly
\* samples_count elements.  When no sample was lost, no copy failed and the
\* ring was filled, the result is the last samples_count samples of the
\* stream, oldest first.
C3_CircularRotation ==
    (kind = "circ" /\ pc = "returned")
        => /\ Len(ret) = 1
           /\ Len(ret[1]) = samples_count
           /\ \A j \in 0..(samples_count - 1) :
                 ret[1][j + 1] =
                     rgSamples[1][((iSample + j) % samples_count) + 1] * conversion_factor
                         + 65536 * ch_offset
           /\ (lostTotal = 0 /\ ~copyFailed /\ copiedTotal >= samples_count)
                 => \A j \in 1..samples_count :
                       ret[1][j] =
                           RawSample(input_channels[1], devPos - samples_count + j)
                               * conversion_factor + 65536 * ch_offset

\* C3 witness: a returned circular drain whose ring has wrapped and whose
\* final cursor is strictly inside the ring.
C3_Witness ==
    /\ kind = "circ" /\ pc = "returned"
    /\ iSample > 0 /\ iSample < samples_count
    /\ copiedTotal > samples_count
    /\ lostTotal = 0 /\ ~copyFailed

\* ========================================================================
\* Claims about the workers (checked under SpecWorker)
\* ========================================================================

WorkerEnded == wpc \in { "terminated", "died" }

\* C4 (as stated): one in, one out.  Whenever a worker is about to take a
\* message from the request queue, or has terminated on the sentinel, it has
\* put exactly one response for every request it has taken so far, in request
\* order; this for every request tuple, a scope request whose mode is neither
\* "RECORD" nor "SCAN" included.
C4_OneInOneOut ==
    (worker # "none" /\ wpc \in { "get", "stop", "terminated" })
        => /\ Len(responses) = Len(taken)
           /\ \A k \in 1..Len(responses) : responses[k].rid = k

\* C5 (as stated): sentinel handling.  When a worker has terminated on the
\* sentinel, every request enqueued before the sentinel has been taken and
\* its response pushed, and the request queue is empty.
C5_SentinelAfterAllServed ==
    (worker # "none" /\ wpc = "terminated")
        => /\ request_queue = << >>
           /\ taken = sent
           /\ Len(responses) = Len(sent)

\* C6: scope worker response shape.  Every response the scope worker puts
\* answers a request of mode "RECORD" or "SCAN" and is a list of exactly k
\* sequences, k the number of requested channels, each of length exactly
\* n_samples; no request gets two responses, and when the worker is back at
\* the queue every RECORD or SCAN request taken so far has its response.
C6_ScopeResponseShape ==
    worker = "scope"
        => /\ \A k \in 1..Len(responses) :
                 LET req == taken[responses[k].rid]
                     data == responses[k].data
                 IN /\ req.scope_mode \in { "RECORD", "SCAN" }
                    /\ Len(data) = Len(req.scope_channels)
                    /\ \A i \in 1..Len(data) : Len(data[i]) = req.n_samples
           /\ \A j, k \in 1..Len(responses) :
                 responses[j].rid = responses[k].rid => j = k
           /\ (wpc = "get" =>
                 \A t \in 1..Len(taken) :
                    taken[t].scope_mode \in { "RECORD", "SCAN" }
                       => \E k \in 1..Len(responses) : responses[k].rid = t)

\* C6 witness: the scope worker has answered a RECORD request and a SCAN
\* request, one of them for two channels and MaxSamples samples.
C6_Witness ==
    /\ worker = "scope"
    /\ Len(responses) = 2
    /\ taken[responses[1].rid].scope_mode = "RECORD"
    /\ taken[responses[2].rid].scope_mode = "SCAN"
    /\ Len(responses[1].data) = 2
    /\ Len(responses[1].data[2]) = MaxSamples

\* C7 (as stated): one session per worker lifetime.  The device connection
\* is opened at most once and closed at most once, and every request is served
\* on that one connection.
C7_OneSessionPerLifetime ==
    worker # "none"
        => /\ opens <= 1
           /\ closes <= 1
           /\ \A k \in 1..Len(servedOn) : servedOn[k] = 1

\* C7 (amended): the SMU worker opens the connection exactly once, before it
\* takes its first request, serves every request on that connection and closes
\* it at most once.  The scope worker opens a new connection for every request
\* it takes and closes it before it takes the next message: the k-th request
\* is served on the k-th connection, at most one connection is open at a time,
\* and none is open while the worker waits on the request queue.
C7_SessionPerWorkerKind ==
    /\ worker = "smu"
          => /\ opens <= 1
             /\ closes <= 1
             /\ (taken # << >> => opens = 1)
             /\ \A k \in 1..Len(servedOn) : servedOn[k] = 1
             /\ (wpc \in { "get", "configure", "acquire", "stop" } => session = "open")
    /\ worker = "scope"
          => /\ \A k \in 1..Len(servedOn) : servedOn[k] = k
             /\ closes <= opens
             /\ opens <= closes + 1
             /\ opens <= Len(taken)
             /\ (wpc \in { "get", "enter", "terminated" } => session # "open")
             /\ (wpc \in { "flow", "exit" } => session = "open" /\ opens = Len(taken))

\* C7 witness: the scope worker has served two requests, each on a connection
\* of its own, and is back at the request queue with both closed.
C7_Witness ==
    /\ worker = "scope"
    /\ wpc = "get"
    /\ Len(responses) = 2
    /\ opens = 2
    /\ closes = 2

\* C8 (as stated): worker shutdown.  A worker whose process has ended has
\* left its loop on the sentinel, and if it had opened the device it has
\* closed the handle (the SMU worker after setting both channels to HI_Z):
\* no worker ends with the handle still open.
C8_EndsWithHandleClosed ==
    (worker # "none" /\ WorkerEnded)
        => /\ session # "open"
           /\ (worker = "smu" /\ opens > 0
                  => channel_mode = [CH_A |-> "HI_Z", CH_B |-> "HI_Z"])

\* ========================================================================
\* Claims about the enable gate (checked under SpecGate)
\* ========================================================================

\* The positions in a channel list of the channels whose enable state is not 1.
NotEnabled(channels) ==
    { i \in 1..Len(channels) : enable_state[channels[i]] # 1 }

EnableQuery == "get_analog_channel_enable_state"

\* C9: _verify_channels_enable_status raises the precondition error only if
\* some channel of its list has enable state # 1, returns normally only if
\* all have enable state 1, and, every enable-state query succeeding, does
\* the one or the other (a failing query raises the device error instead).
\* It stops at the first channel that is not enabled, and until it has ended
\* the only device calls made are enable-state queries.
C9_VerifyRaisesIffNotEnabled ==
    gflow \in Flows
        => LET channels == GatedChannels(gflow, targets)
               bad == NotEnabled(channels)
           IN /\ (verifyOutcome = "precondition"
                     => /\ bad # {}
                        /\ Len(calls) \in bad
                        /\ \A i \in bad : Len(calls) <= i)
              /\ (verifyOutcome = "returned"
                     => /\ bad = {}
                        /\ Len(calls) >= Len(channels))
              /\ (verifyOutcome = "device" => gerr = "device")
              /\ ((gpc = "verify" \/ verifyOutcome \in { "precondition", "device" })
                     => \A k \in 1..Len(calls) : calls[k] = EnableQuery)
              /\ \A k \in 1..Len(calls) :
                     k <= Len(channels) => calls[k] = EnableQuery

\* C9 witness: a two-channel list whose first channel is enabled and whose
\* second is not: the precondition error is raised after two queries.
C9_Witness ==
    /\ gflow \in Flows
    /\ verifyOutcome = "precondition"
    /\ gerr = "precondition"
    /\ Len(targets) = 2
    /\ enable_state[targets[1]] = 1
    /\ calls = << EnableQuery, EnableQuery >>

\* C10: a gated flow called with a channel list of which some channel is not
\* enabled never makes a state-changing device call (no parameter write, no
\* auto-configure switch, no configure, start or stop), never reaches its body
\* and never returns; when it has raised, it has raised the precondition error
\* out of the verification (the device error if an enable-state query failed).
C10_GateBeforeProgramming ==
    (gflow \in Flows /\ isList /\ NotEnabled(targets) # {})
        => /\ StateChangingCount(calls) = 0
           /\ gpc \in { "called", "verify", "raised" }
           /\ (gpc = "raised"
                  => /\ verifyOutcome \in { "precondition", "device" }
                     /\ gerr = verifyOutcome)

\* C10 witness: the sine sweep called with its input channel enabled and its
\* output channel not: the precondition error after the two queries.
C10_Witness ==
    /\ gflow = "perform_sine_sweep_measurements"
    /\ enable_state[targets[1]] = 1
    /\ enable_state[targets[2]] = 0
    /\ gpc = "raised"
    /\ gerr = "precondition"
    /\ Len(calls) = 2

\* ========================================================================
\* Claims about error propagation (checked under SpecError)
\* ========================================================================

\* C11 (as stated): error propagation.  A wrapper operation one of whose
\* native calls returned a status other than SUCCESS does not return
\* normally, and the device error it raises carries the code and the message
\* string the device reported for that failing call; this for every
\* operation, the analog-output trigger-slope and idle-state setters and
\* getters included.
C11_ErrorCarriesLastError ==
    /\ (epc = "returned" => \A k \in 1..Len(native_rcs) : native_rcs[k] = SUCCESS_RETURN_CODE)
    /\ (epc = "raised"
           => /\ exc.error_code = failure.code
              /\ exc.error_message = Str(failure.msg))

\* ========================================================================
\* Claims about the context managers (checked under SpecContext)
\* ========================================================================

ContextEnded == cpc \in { "done", "raised" }

\* C12 (as stated): scoped close.  For each of the six context managers, once
\* the connection has been opened it is closed exactly once on every path
\* out of the context: normal exit, an exception in the body, an exception
\* in a configuration step of __enter__ after the open, an exception in a
\* reset step of __exit__ before the close.
C12_ClosedExactlyOnce ==
    /\ conn_closes <= conn_opens
    /\ (ContextEnded /\ conn_opens = 1 => conn_closes = 1)

\* the order the SMU context promises: enter, then exit
SMUContextOrder ==
    << "open", "set_channel_mode(CH_A)", "set_channel_mode(CH_B)",
       "set_channel_constant_output(CH_A)", "set_channel_constant_output(CH_B)",
       "time.sleep", "start_capture",
       "set_channel_mode(CH_A, HI_Z)", "set_channel_mode(CH_B, HI_Z)",
       "end_capture", "close" >>

\* C13: SMU context order.  Entering an SMUContext opens the device, sets both
\* channel modes, then both constant outputs, then waits, then starts the
\* capture with the requested sample count; inside the context
\* get_channel_mode returns the requested mode of each channel; leaving it
\* sets both channels to HI_Z, then ends the capture, then closes.  No call
\* is made out of this order, whatever step fails.
C13_SMUContextOrder ==
    ctx_kind = "SMUContext" =>
        /\ Len(ctx_calls) <= Len(SMUContextOrder)
        /\ \A k \in 1..Len(ctx_calls) : ctx_calls[k] = SMUContextOrder[k]
        /\ (cpc = "body" => smu.capture = Bound(n_samples))
        /\ (seen_modes # << >> => seen_modes = ch_modes)
        /\ (cpc = "done" => /\ ctx_calls = SMUContextOrder
                            /\ smu = SMUUnconfigured)

\* an SMU context entered with a non-default mode, read inside, left normally
C13_Witness ==
    /\ ctx_kind = "SMUContext"
    /\ cpc = "done"
    /\ ch_modes = << "HI_Z", "SVMI" >>
    /\ seen_modes = ch_modes
    /\ n_samples > 0

\* ========================================================================
\* Claims about the frame of the flows (checked under SpecGate)
\* ========================================================================

\* the channels in a channel list
ChannelsOf(channels) == { channels[k] : k \in 1..Len(channels) }

\* C14: frame of play.  play_analog_signal(output_channels = L) makes its
\* parameter-programming and start calls only on channels of L: an output
\* channel not in L gets no such call and stays Ready, while every channel
\* of L is Running once the flow has returned.
C14_PlayTouchesOnlyListed ==
    gflow = "play_analog_signal" =>
        /\ written \subseteq ChannelsOf(targets)
        /\ \A c \in AnalogOutputChannel \ ChannelsOf(targets) :
              output_state[c] = DwfStateReady
        /\ (gpc = "returned" =>
              \A c \in ChannelsOf(targets) : output_state[c] = DwfStateRunning)

\* a play on one output channel has returned: it runs, the other is Ready
C14_Witness ==
    /\ gflow = "play_analog_signal"
    /\ gpc = "returned"
    /\ targets = << Out(1) >>
    /\ written = { Out(1) }
    /\ output_state[Out(1)] = DwfStateRunning
    /\ output_state[Out(2)] = DwfStateReady

\* ========================================================================
\* Claims about the calls of the drains (checked under SpecDrain)
\* ========================================================================

\* C15: frame of the FIFO drain.  Apart from the range and offset queries
\* of its entry and the last-error queries of a raise, fill_recorded_samples
\* issues only poll, record-status and data-copy calls: no configure, start,
\* stop or reset call and no parameter write.  A drain of an indefinite
\* recording therefore leaves the instrument running in the acquisition mode
\* it was in.
C15_OnlyReadCalls ==
    kind = "fifo" =>
        /\ issued \subseteq { "_get_analog_input_range", "_get_analog_input_offset",
                              "_get_analog_input_status",
                              "_get_analog_input_record_status",
                              "FDwfAnalogInStatusData16" } \cup ErrorQueries
        /\ issued \cap (StateChangingCalls \cup { "_reset_analog_input_config" }) = {}
        /\ (ErrorQueries \subseteq issued <=> pc = "raised")

\* a FIFO drain that polled, read the counters, copied and returned
C15_Witness ==
    /\ FifoReturned
    /\ samples_count > 0
    /\ issued = { "_get_analog_input_range", "_get_analog_input_offset",
                  "_get_analog_input_status", "_get_analog_input_record_status",
                  "FDwfAnalogInStatusData16" }

\* ========================================================================
\* Claims about the fixtures (checked under SpecFixture)
\* ========================================================================

\* an option that was not supplied: getini gives None or an empty string
NotSupplied(value) == value \in { << >>, << "" >> }

LastCopies == { last_calls[k] : k \in { j \in 1..Len(last_calls) :
                    last_calls[j].call = "FDwfAnalogInStatusData16" } }

\* C17 (as stated): buffer bounds of the FIFO drains.  On every iteration,
\* whatever (available, lost, corrupted) the device reports, the count
\* requested from the device is not negative, the write cursor plus that
\* count does not pass samples_count, and the cursor never exceeds
\* samples_count.
C17_BufferBounds ==
    kind \in { "fifo", "multi" } =>
        /\ cSamples <= samples_count
        /\ \A c \in LastCopies : /\ c.count >= 0
                                 /\ c.cursor + c.count <= samples_count
\* C18: pre-start skip of the FIFO drains.  While the cursor is 0, a poll
\* that reports Config, Prefill or Armed ends the iteration without reading
\* the record counters and without copying; once the cursor is above 0 the
\* reported state is not consulted, and the counters are read whatever it is.
C18_PreStartSkip ==
    [][ (kind \in { "fifo", "multi" } /\ pc = "loop" /\ pc' = "loop"
            /\ last_calls' # << >>)
        => IF cSamples = 0 /\ prestart'
           THEN /\ last_calls' = << Poll >>
                /\ UNCHANGED << cSamples, cLost, cCorrupted, rgSamples, result >>
           ELSE /\ Len(last_calls') >= 2
                /\ last_calls'[1] = Poll
                /\ last_calls'[2] = RecordStatus ]_vars

\* a poll before the start was skipped: only the status was read
C18_Witness ==
    /\ kind = "fifo"
    /\ pc = "loop"
    /\ cSamples = 0
    /\ prestart
    /\ last_calls = << Poll >>
\* C19 (as stated): termination of the circular drain.  fill_recorded_samples_2
\* leaves its polling loop exactly when a poll reports Done, never because
\* samples_count samples were written; what that poll reports available is
\* copied before the loop is left; and a drain whose device reaches Done
\* returns.  On a ring of at least one sample the drain therefore never ends
\* in anything but its return or the device error of a failed native call,
\* and a returned drain has requested every sample the device reported.
C19_CircularTermination ==
    (kind = "circ" /\ samples_count > 0) =>
        /\ pc \in { "begin", "loop", "returned", "raised" }
        /\ (pc = "returned" => copiedTotal + lostTotal = devPos)

\* the positions of a raw buffer that a data copy has written
Filled(buf) == { j \in 1..Len(buf) : buf[j] # 0 }

\* C20 (as stated): time alignment of the multi-channel FIFO drain.  All
\* requested channels share one polling loop: an iteration that copies makes
\* one copy per channel, each of the same count at the same cursor; at the
\* return all channel buffers have the same length and the same filled
\* positions (channels are read together or not at all).
C20_ChannelsReadTogether ==
    kind = "multi" =>
        /\ \A c1 \in LastCopies, c2 \in LastCopies :
              c1.cursor = c2.cursor /\ c1.count = c2.count
        /\ (LastCopies # {} =>
              { c.ch : c \in LastCopies } = ChannelsOf(input_channels))
        /\ (pc = "returned" =>
              \A i \in 1..Len(input_channels), j \in 1..Len(input_channels) :
                 /\ Len(ret[i]) = Len(ret[j])
                 /\ Filled(rgSamples[i]) = Filled(rgSamples[j]))

\* the raw buffer of the i-th requested channel as the drain returns it
ReturnedRaw(i) ==
    IF kind = "circ" THEN AlignRecordedData(rgSamples[i], iSample) ELSE rgSamples[i]

\* C21 (as stated): raw-to-voltage conversion with each channel's own
\* settings.  In every drain each returned sample of a channel equals
\* raw * (range / 65536) + offset with the range and the offset of that
\* channel, applied once; in the multi-channel drain this holds for every
\* requested channel, also when the channels differ in range or offset.
C21_OwnRangeAndOffset ==
    pc = "returned" =>
        \A i \in 1..Len(input_channels) :
            ret[i] = ToVolts(ReturnedRaw(i), DeviceRange(input_channels[i]),
                             DeviceOffset(input_channels[i]))

\* C22 (as stated): no partial results on failure.  If any native data copy
\* or status call of a drain returned a non-success status, on any iteration
\* and for any channel, the drain raises the device error and returns no
\* data: a drain that has returned made no failed call.
C22_NoDataAfterFailure ==
    pc = "returned" => ~copyFailed

\* ========================================================================
\* Claims about the order of calls in the flows (checked under SpecGate)
\* ========================================================================

\* the flows that program channel parameters
ProgrammingFlows ==
    { "play_analog_signal", "record_analog_signal", "start_analog_screen",
      "perform_single_analog_acquisition", "start_analog_acquisition",
      "perform_ac_rms_data_logging", "perform_sine_sweep_measurements" }

\* the positions of a call log that hold one of the given calls
Positions(log_, names) == { k \in 1..Len(log_) : log_[k] \in names }

\* C23 (as stated): auto-configure suppression.  Every flow that programs
\* channel parameters disables auto-configure after the enable check and
\* before its first parameter write: each parameter write of the flow has a
\* _disable_auto_configure call of the same flow before it, that call comes
\* after the enable-state queries, and the flow does not switch
\* auto-configure back on.
C23_DisableBeforeFirstWrite ==
    gflow \in ProgrammingFlows =>
        /\ \A k \in Positions(calls, ProgramCalls) :
              \E j \in Positions(calls, { "_disable_auto_configure" }) : j < k
        /\ \A j \in Positions(calls, { "_disable_auto_configure" }) :
              /\ verifyOutcome = "returned"
              /\ \A k \in Positions(calls, { EnableQuery }) : k < j
        /\ Positions(calls, { "_enable_dynamic_auto_configure" }) = {}

\* the analog input flows that write a range or an offset
RangeChangingFlows ==
    { "record_analog_signal", "start_analog_screen", "start_analog_acquisition",
      "perform_single_analog_acquisition", "perform_sine_sweep_measurements" }

\* C24 (as stated): stop, settle, start.  In every analog input flow that
\* changes range or offset, the start of the acquisition
\* (configure with start=True) comes after a stabilization delay, which
\* comes after a configure with start=False, which comes after every
\* parameter write of the flow: a start is never issued without a stop and a
\* delay before it in the same flow.
C24_StopSettleStart ==
    gflow \in RangeChangingFlows =>
        \A s \in Positions(calls, { "_start_analog_input" }) :
            \E p \in Positions(calls, { "_stop_analog_input" }),
               d \in Positions(calls, { "time.sleep" }) :
                /\ p < d
                /\ d < s
                /\ \A k \in Positions(calls, ProgramCalls) : k < p

\* the bulk data reads and the polls in the call log
BulkReads == Positions(calls, { "FDwfAnalogInStatusData" })
StatusPolls == Positions(calls, { "_get_analog_input_status" })

\* the channels one capture of the flow reads
ReadsPerCapture ==
    IF gflow = "retrieve_analog_acquisitions" THEN Len(targets) ELSE 1

\* C25: the full-buffer fetch polls before it reads.  In
\* perform_single_analog_acquisition and retrieve_analog_acquisitions a bulk
\* data read is issued only after a poll that reported Done (in the single
\* acquisition a poll issued after the start); the reads of one capture
\* follow that capture's Done poll with no other call between, one per
\* channel; the flow does not return before every capture has seen its Done,
\* and retrieve_analog_acquisitions returns after n_captures captures, one
\* trigger time and one entry for each.
C25_PollDoneBeforeRead ==
    gflow \in { "perform_single_analog_acquisition", "retrieve_analog_acquisitions" } =>
        /\ Cardinality(BulkReads) <= ReadsPerCapture * dones
        /\ (dones > 0 => Cardinality(BulkReads) >= ReadsPerCapture * (dones - 1))
        /\ \A r \in BulkReads :
              /\ r > 1
              /\ calls[r - 1] \in { "_get_analog_input_status", "FDwfAnalogInStatusData" }
        /\ (gflow = "perform_single_analog_acquisition" =>
              \A q \in StatusPolls :
                 \E s \in Positions(calls, { "_start_analog_input" }) : s < q)
        /\ (gpc = "returned" =>
              LET captures == IF gflow = "retrieve_analog_acquisitions"
                              THEN iterations ELSE 1
              IN /\ dones = captures
                 /\ Cardinality(BulkReads) = ReadsPerCapture * captures
                 /\ (gflow = "retrieve_analog_acquisitions" =>
                       Cardinality(Positions(calls, { "FDwfAnalogInStatusTime" }))
                          = captures))

\* two captures of two channels were retrieved, after a poll that did not
\* report Done
C25_Witness ==
    /\ gflow = "retrieve_analog_acquisitions"
    /\ gpc = "returned"
    /\ iterations = 2
    /\ Len(targets) = 2
    /\ dones = 2
    /\ Cardinality(StatusPolls) > 2
    /\ Cardinality(BulkReads) = 4

\* C26 (as stated): flows abort at the first boundary failure.  Once a
\* native call of a flow has returned a non-success status, the flow issues
\* no further device-programming call (no parameter write, no auto-configure
\* switch, no configure, start or stop) before the error is raised.
C26_AbortAtFirstFailure ==
    [][ (return_codes_failed \/ gpc = "raised")
        => \/ calls' = calls
           \/ calls'[Len(calls')] \notin StateChangingCalls ]_vars

\* ========================================================================
\* Claims about the outcome of the drains (checked under SpecDrain)
\* ========================================================================

\* C27 (as stated): the FIFO drain ends with a defined outcome.  Whenever the
\* loop is left, also when no data copy was ever made (samples_count is 0,
\* or lost samples consumed every slot), the drain returns samples_count
\* voltages per channel or raises the device error of a failed native call;
\* it never fails on a copy status that was never assigned.
C27_DefinedOutcome ==
    kind \in { "fifo", "multi" } =>
        /\ pc # "crashed"
        /\ (pc = "returned" =>
              \A i \in 1..Len(input_channels) : Len(ret[i]) = samples_count)

\* C28 (as stated): the circular drain tolerates empty polls.  A poll of
\* fill_recorded_samples_2 that reports zero available samples while the
\* state is not Done, the first poll of the drain included, leaves the ring
\* unchanged, moves the write cursor only by the lost samples (modulo the
\* ring), and the loop polls again.
C28_EmptyPollTolerated ==
    [][ (kind = "circ" /\ pc = "loop" /\ samples_count > 0
            /\ last_calls' = << Poll, RecordStatus >>
            /\ pc' \notin { "raised", "returned" })
        => /\ pc' = "loop"
           /\ rgSamples' = rgSamples
           /\ iSample' = (iSample + cLost') % samples_count ]_vars

\* ========================================================================
\* Claims about the digital I/O masks (checked under SpecDigital)
\* ========================================================================

\* bit b of a mask, by arithmetic
BitOf(mask, b) == (mask \div (2 ^ b)) % 2 = 1

\* a mask equals another in every bit but b, where it holds the given value
OnlyBitChanged(after, before, b, value) ==
    \A k \in DigitalIOChannel :
        BitOf(after, k) = IF k = b THEN value ELSE BitOf(before, k)

\* C29: read-modify-write frame of the digital I/O.  A
\* set_digital_io_channel_state(ch, s) that returns changes only bit ch of
\* the 16-bit output mask, a set_digital_io_channel_mode(ch, m) that returns
\* changes only bit ch of the 16-bit output-enable mask, the 15 other bits
\* and the other mask keep the value read from the device; a
\* get_digital_io_channel_mode(ch) after it returns m; and after any
\* sequence of such calls each channel's bit holds the value of the last set
\* call for that channel.
C29_ReadModifyWriteFrame ==
    /\ dio_output \in 0..(2 ^ MaskWidth - 1)
    /\ dio_enable \in 0..(2 ^ MaskWidth - 1)
    /\ (dio_call.name = "set_digital_io_channel_state" /\ dio_call.outcome = "returned"
          => /\ OnlyBitChanged(dio_output, dio_before[1], dio_call.channel, dio_call.value)
             /\ dio_enable = dio_before[2])
    /\ (dio_call.name = "set_digital_io_channel_mode" /\ dio_call.outcome = "returned"
          => /\ OnlyBitChanged(dio_enable, dio_before[2], dio_call.channel, dio_call.value)
             /\ dio_output = dio_before[1])
    /\ (dio_call.name = "get_digital_io_channel_mode" /\ dio_call.outcome = "returned"
          => /\ (last_mode_set[dio_call.channel] # Unbound
                   => dio_call.ret = last_mode_set[dio_call.channel][1])
             /\ << dio_output, dio_enable >> = dio_before)
    /\ \A c \in DOMAIN last_state_set :
          last_state_set[c] # Unbound => BitOf(dio_output, c) = last_state_set[c][1]
    /\ \A c \in DOMAIN last_mode_set :
          last_mode_set[c] # Unbound => BitOf(dio_enable, c) = last_mode_set[c][1]

\* DIO_15 was driven high and DIO_7 made an output on masks that had both
\* bits clear, and the mode read back is output
C29_Witness ==
    /\ dio_call.name = "get_digital_io_channel_mode"
    /\ dio_call.outcome = "returned"
    /\ dio_call.channel = 7
    /\ dio_call.ret = TRUE
    /\ last_mode_set[7] = Bound(TRUE)
    /\ last_state_set[15] = Bound(TRUE)
    /\ dio_enable = 23130 + 128
    /\ dio_output = 23130 + 32768

\* ========================================================================
\* Claims about the SPI chip select (checked under SpecSpi)
\* ========================================================================

\* C30 (as stated): chip-select bracketing.  Every SPI read, write and
\* exchange drives chip select low before its transfer call and high after
\* it: once configure_spi has left the line high, the line is high whenever
\* no operation is in progress, and it is low only between an operation's
\* select and its deselect.
C30_ChipSelectBracketing ==
    /\ (spi_pc = "transfer" => cs_level = 0)
    /\ (spi_outcome = "returned" => cs_level = 1)
    /\ (spi_configured =>
          /\ (spi_pc = "ready" => cs_level = 1)
          /\ (cs_level = 0 => spi_pc \in { "transfer", "deselect" }))

====
